---- MODULE Spec2Model ----
(***************************************************************************)
(* Generation pipeline of the BZYAgent backend: the class-scheduling       *)
(* engine (teaching_plan_service.py), the lesson-plan pipeline with its    *)
(* time-allocation validator and reconciliation loop (lesson_plan_api.py,  *)
(* ai_service.py) and the LLM client adapter run_prompt                    *)
(* (copyright_service.py).                                                 *)
(*                                                                         *)
(* Each component is a state machine of its own over its own variables;    *)
(* a specification runs one machine while the others stay idle.            *)
(***************************************************************************)
EXTENDS Integers, Sequences, FiniteSets, TLC

VARIABLES
    \* the scheduling engine applied to one input
    f_pc, f_in, f_available, f_actual, f_built,
    \* one call of generate_teaching_plan_schedule
    tp_pc, tp_in, tp_actual, tp_available, tp_frame, tp_request,
    tp_llm_calls, tp_error, tp_result,
    \* one run of the lesson-plan stream's event_generator
    lp_pc, lp_plan, lp_system, lp_hours, lp_data, lp_ok, lp_reason, lp_checks, lp_gen_calls,
    lp_repairs, lp_error, lp_rendered, lp_saved, lp_events,
    \* one call of run_prompt
    rp_pc, rp_attempt, rp_trace, rp_sleeps, rp_last_error, rp_result,
    \* one call of parse_file_blocks
    pf_pc, pf_map, pf_text, pf_lines, pf_current, pf_buffer, pf_files,
    \* one call of safe_write_files
    sw_pc, sw_map, sw_todo, sw_log, sw_fs, sw_written, sw_raised,
    \* one copyright job and its run
    cj_pc, cj_in, cj_job, cj_updates, cj_step, cj_llm_calls, cj_workspace, cj_files, cj_raised, cj_requests, cj_diag, cj_call, cj_attempt,
    \* one request to get_latest_job
    gl_pc, gl_since, gl_wait, gl_row, gl_row_exists, gl_job, gl_elapsed, gl_satisfied_at,
    \* The workspace of a project under two runs.
    ws_pc, ws_fs, ws_written, ws_archive, ws_prior, ws_prepared, ws_pages,
    \* the copyright_jobs rows of one project and the runs bound to them
    jt_table, jt_in, jt_pc, jt_step, jt_actor,
    \* one run of the teaching-plan stream's event_generator
    ts_pc, ts_in, ts_events,
    \* the plan parameters built from an extracted schedule
    pp_pc, pp_schedule, pp_supplied, pp_total, pp_fallback, pp_params,
    \* the two extraction calls of a copyright run
    ex_pc, ex_framework, ex_pages, ex_insights, ex_page_items, ex_caught, ex_raised,
    \* one copyright run: its documents, prompts and source files
    cr_pc, cr_project, cr_vendor, cr_docs, cr_pages, cr_answers, cr_files, cr_prompts, cr_edited

frameVars == <<f_pc, f_in, f_available, f_actual, f_built>>

planVars == <<tp_pc, tp_in, tp_actual, tp_available, tp_frame, tp_request,
              tp_llm_calls, tp_error, tp_result>>

lessonVars == <<lp_pc, lp_plan, lp_system, lp_hours, lp_data, lp_ok, lp_reason, lp_checks, lp_gen_calls,
                lp_repairs, lp_error, lp_rendered, lp_saved, lp_events>>

promptVars == <<rp_pc, rp_attempt, rp_trace, rp_sleeps, rp_last_error, rp_result>>

parseVars == <<pf_pc, pf_map, pf_text, pf_lines, pf_current, pf_buffer, pf_files>>

writeVars == <<sw_pc, sw_map, sw_todo, sw_log, sw_fs, sw_written, sw_raised>>

jobVars == <<cj_pc, cj_in, cj_job, cj_updates, cj_step, cj_llm_calls, cj_workspace, cj_files,
            cj_raised, cj_requests, cj_diag, cj_call, cj_attempt>>

pollVars == <<gl_pc, gl_since, gl_wait, gl_row, gl_row_exists, gl_job, gl_elapsed, gl_satisfied_at>>

workspaceVars == <<ws_pc, ws_fs, ws_written, ws_archive, ws_prior, ws_prepared, ws_pages>>

tableVars == <<jt_table, jt_in, jt_pc, jt_step, jt_actor>>

streamVars == <<ts_pc, ts_in, ts_events>>

paramsVars == <<pp_pc, pp_schedule, pp_supplied, pp_total, pp_fallback, pp_params>>

extractVars == <<ex_pc, ex_framework, ex_pages, ex_insights, ex_page_items, ex_caught, ex_raised>>

sourcesVars == <<cr_pc, cr_project, cr_vendor, cr_docs, cr_pages, cr_answers, cr_files, cr_prompts, cr_edited>>

\* What each machine leaves alone.
notFrameVars == <<planVars, lessonVars, promptVars, parseVars, writeVars, jobVars, pollVars, workspaceVars, tableVars, streamVars, paramsVars, extractVars, sourcesVars>>
notPlanVars == <<frameVars, lessonVars, promptVars, parseVars, writeVars, jobVars, pollVars, workspaceVars, tableVars, streamVars, paramsVars, extractVars, sourcesVars>>
notLessonVars == <<frameVars, planVars, promptVars, parseVars, writeVars, jobVars, pollVars, workspaceVars, tableVars, streamVars, paramsVars, extractVars, sourcesVars>>
notPromptVars == <<frameVars, planVars, lessonVars, parseVars, writeVars, jobVars, pollVars, workspaceVars, tableVars, streamVars, paramsVars, extractVars, sourcesVars>>
notParseVars == <<frameVars, planVars, lessonVars, promptVars, writeVars, jobVars, pollVars, workspaceVars, tableVars, streamVars, paramsVars, extractVars, sourcesVars>>
notWriteVars == <<frameVars, planVars, lessonVars, promptVars, parseVars, jobVars, pollVars, workspaceVars, tableVars, streamVars, paramsVars, extractVars, sourcesVars>>
notJobVars == <<frameVars, planVars, lessonVars, promptVars, parseVars, writeVars, pollVars, workspaceVars, tableVars, streamVars, paramsVars, extractVars, sourcesVars>>
notPollVars == <<frameVars, planVars, lessonVars, promptVars, parseVars, writeVars, jobVars, workspaceVars, tableVars, streamVars, paramsVars, extractVars, sourcesVars>>
notWorkspaceVars == <<frameVars, planVars, lessonVars, promptVars, parseVars, writeVars, jobVars, pollVars, tableVars, streamVars, paramsVars, extractVars, sourcesVars>>
notTableVars == <<frameVars, planVars, lessonVars, promptVars, parseVars, writeVars, jobVars, pollVars, workspaceVars, streamVars, paramsVars, extractVars, sourcesVars>>
notStreamVars == <<frameVars, planVars, lessonVars, promptVars, parseVars, writeVars, jobVars, pollVars, workspaceVars, tableVars, paramsVars, extractVars, sourcesVars>>
notParamsVars == <<frameVars, planVars, lessonVars, promptVars, parseVars, writeVars, jobVars, pollVars, workspaceVars, tableVars, streamVars, extractVars, sourcesVars>>
notExtractVars == <<frameVars, planVars, lessonVars, promptVars, parseVars, writeVars, jobVars, pollVars, workspaceVars, tableVars, streamVars, paramsVars, sourcesVars>>
notSourcesVars == <<frameVars, planVars, lessonVars, promptVars, parseVars, writeVars, jobVars, pollVars, workspaceVars, tableVars, streamVars, paramsVars, extractVars>>

vars == <<f_pc, f_in, f_available, f_actual, f_built,
          tp_pc, tp_in, tp_actual, tp_available, tp_frame, tp_request,
          tp_llm_calls, tp_error, tp_result,
          lp_pc, lp_plan, lp_system, lp_hours, lp_data, lp_ok, lp_reason, lp_checks, lp_gen_calls,
          lp_repairs, lp_error, lp_rendered, lp_saved, lp_events,
          rp_pc, rp_attempt, rp_trace, rp_sleeps, rp_last_error, rp_result,
          pf_pc, pf_map, pf_text, pf_lines, pf_current, pf_buffer, pf_files,
          sw_pc, sw_map, sw_todo, sw_log, sw_fs, sw_written, sw_raised,
          cj_pc, cj_in, cj_job, cj_updates, cj_step, cj_llm_calls, cj_workspace, cj_files, cj_raised, cj_requests, cj_diag, cj_call, cj_attempt,
          gl_pc, gl_since, gl_wait, gl_row, gl_row_exists, gl_job, gl_elapsed, gl_satisfied_at,
          ws_pc, ws_fs, ws_written, ws_archive, ws_prior, ws_prepared, ws_pages,
          jt_table, jt_in, jt_pc, jt_step, jt_actor,
          ts_pc, ts_in, ts_events,
          pp_pc, pp_schedule, pp_supplied, pp_total, pp_fallback, pp_params,
          ex_pc, ex_framework, ex_pages, ex_insights, ex_page_items, ex_caught, ex_raised,
          cr_pc, cr_project, cr_vendor, cr_docs, cr_pages, cr_answers, cr_files, cr_prompts, cr_edited>>

(***************************************************************************)
(* Bounds of the model.                                                    *)
(***************************************************************************)
MaxWeeks == 2
MaxCpw == 2
MaxActual == 3
MaxSkips == 2
MaxHours == 4
MaxPlanSkips == 1
MaxAllocLen == 1
MaxLines == 2
MaxBlocks == 2
MaxSegs == 2
MaxEntries == 2
MaxTime == 2
MaxWait == 2

(***************************************************************************)
(* Python values that may or may not be an int (JSON numbers and null).    *)
(***************************************************************************)
IntV(n) == [k |-> "int", v |-> n]
NoneV == [k |-> "none", v |-> 0]

\* Python truthiness of a JSON value: None and 0 are falsy.
Truthy(x) == x.k = "int" /\ x.v # 0

\* Python's `a or b`.
PyOr(a, b) == IF Truthy(a) THEN a ELSE b

\* Whether int(x) returns (it raises TypeError on None).
IntOk(x) == x.k = "int"

PyMax(a, b) == IF a >= b THEN a ELSE b
PyMin(a, b) == IF a <= b THEN a ELSE b

(***************************************************************************)
(* The scheduling engine.                                                  *)
(***************************************************************************)
\* The clamp of classes_per_week.
MaxClassesPerWeek == 7

\* Mutant: the first-week exception is forgotten.
week_class_limit_no_first_week(week, first_week_classes, classes_per_week) ==
    classes_per_week

_get_week_class_limit(week, first_week_classes, classes_per_week) ==
    IF week = 1 THEN first_week_classes ELSE classes_per_week

\* classes_per_week = max(1, min(7, classes_per_week))
clamp_classes_per_week(classes_per_week) ==
    PyMax(1, PyMin(MaxClassesPerWeek, classes_per_week))

\* Mutant: week 1 is given the capacity of the other weeks.
clamp_first_week_classes_ignored(classes_per_week, first_week_classes) ==
    clamp_classes_per_week(classes_per_week)

\* first_week_classes = max(1, min(classes_per_week, first_week_classes)),
\* with classes_per_week already clamped.
clamp_first_week_classes(classes_per_week, first_week_classes) ==
    PyMax(1, PyMin(clamp_classes_per_week(classes_per_week), first_week_classes))

\* class_index = item.get('class') or item.get('class_index') or item.get('session')
skip_item_class_index(item) ==
    PyOr(PyOr(item.class, item.class_index), item.session)

\* Mutant: the range test reads 1 < week, so a skip in week 1 is dropped.
RECURSIVE build_skip_set_after_first_week(_, _, _, _)
build_skip_set_after_first_week(total_weeks, classes_per_week, first_week_classes, skip_slots) ==
    IF skip_slots = <<>> THEN {}
    ELSE LET item == Head(skip_slots)
             rest == build_skip_set_after_first_week(total_weeks, classes_per_week,
                                                     first_week_classes, Tail(skip_slots))
             ci == PyOr(PyOr(item.class, item.class_index), item.session)
         IN  IF /\ item.week.k = "int"
                /\ ci.k = "int"
                /\ 1 < item.week.v
                /\ item.week.v <= total_weeks
                /\ 1 <= ci.v
                /\ ci.v <= PyMax(1, PyMin(MaxClassesPerWeek, classes_per_week))
             THEN rest \cup { <<item.week.v, ci.v>> }
             ELSE rest

\* The skip_set loop: items whose week or class index does not convert to an
\* int are passed over; the others are kept when they lie in the calendar.
build_skip_set(total_weeks, classes_per_week, first_week_classes, skip_slots) ==
    LET cpw == clamp_classes_per_week(classes_per_week)
        fwc == clamp_first_week_classes(classes_per_week, first_week_classes)
    IN  { <<skip_slots[i].week.v, skip_item_class_index(skip_slots[i]).v>> :
            i \in { j \in 1..Len(skip_slots) :
                      /\ IntOk(skip_slots[j].week)
                      /\ IntOk(skip_item_class_index(skip_slots[j]))
                      /\ LET week == skip_slots[j].week.v
                             class_index == skip_item_class_index(skip_slots[j]).v
                         IN  /\ 1 <= week
                             /\ week <= total_weeks
                             /\ 1 <= class_index
                             /\ class_index <= _get_week_class_limit(week, fwc, cpw) } }

\* Mutant: the loop returns one slot late.
RECURSIVE schedule_loop_stopping_late(_, _, _, _)
schedule_loop_stopping_late(week, class_index, acc, p) ==
    IF week > p.total_weeks THEN acc
    ELSE IF class_index > _get_week_class_limit(week, p.first_week_classes, p.classes_per_week)
         THEN schedule_loop_stopping_late(week + 1, 1, acc, p)
    ELSE IF <<week, class_index>> \in p.skip_set
         THEN schedule_loop_stopping_late(week, class_index + 1, acc, p)
    ELSE LET next == [schedule |-> Append(acc.schedule,
                                          [order |-> Len(acc.schedule) + 1, week |-> week]),
                      cells |-> Append(acc.cells, <<week, class_index>>)]
         IN  IF Len(next.schedule) > p.actual_classes
             THEN next
             ELSE schedule_loop_stopping_late(week, class_index + 1, next, p)

\* The nested week / class_index loops of build_schedule_frame, from the
\* iteration at (week, class_index) on.  acc.schedule is the list under
\* construction; acc.cells remembers the (week, class_index) iteration that
\* appended each slot.
RECURSIVE schedule_loop(_, _, _, _)
schedule_loop(week, class_index, acc, p) ==
    IF week > p.total_weeks THEN acc
    ELSE IF class_index > _get_week_class_limit(week, p.first_week_classes, p.classes_per_week)
         THEN schedule_loop(week + 1, 1, acc, p)
    ELSE IF <<week, class_index>> \in p.skip_set
         THEN schedule_loop(week, class_index + 1, acc, p)
    ELSE LET next == [schedule |-> Append(acc.schedule,
                                          [order |-> Len(acc.schedule) + 1, week |-> week]),
                      cells |-> Append(acc.cells, <<week, class_index>>)]
         IN  IF Len(next.schedule) >= p.actual_classes
             THEN next
             ELSE schedule_loop(week, class_index + 1, next, p)

\* build_schedule_frame together with the iterations that produced its slots.
schedule_frame_trace(total_weeks, classes_per_week, actual_classes, first_week_classes, skip_slots) ==
    IF total_weeks < 1 \/ classes_per_week < 1
    THEN [schedule |-> <<>>, cells |-> <<>>]
    ELSE schedule_loop(1, 1, [schedule |-> <<>>, cells |-> <<>>],
            [total_weeks |-> total_weeks,
             classes_per_week |-> clamp_classes_per_week(classes_per_week),
             first_week_classes |-> clamp_first_week_classes(classes_per_week, first_week_classes),
             actual_classes |-> actual_classes,
             skip_set |-> build_skip_set(total_weeks, classes_per_week,
                                         first_week_classes, skip_slots)])

build_schedule_frame(total_weeks, classes_per_week, actual_classes, first_week_classes, skip_slots) ==
    schedule_frame_trace(total_weeks, classes_per_week, actual_classes,
                         first_week_classes, skip_slots).schedule

\* Mutant: a skipped session is counted like any other.
RECURSIVE count_loop_counting_skips(_, _, _, _)
count_loop_counting_skips(week, class_index, available_slots, p) ==
    IF week > p.total_weeks THEN available_slots
    ELSE IF class_index > _get_week_class_limit(week, p.first_week_classes, p.classes_per_week)
         THEN count_loop_counting_skips(week + 1, 1, available_slots, p)
    ELSE count_loop_counting_skips(week, class_index + 1, available_slots + 1, p)

\* The counting loops of count_available_slots, from (week, class_index) on.
RECURSIVE count_loop(_, _, _, _)
count_loop(week, class_index, available_slots, p) ==
    IF week > p.total_weeks THEN available_slots
    ELSE IF class_index > _get_week_class_limit(week, p.first_week_classes, p.classes_per_week)
         THEN count_loop(week + 1, 1, available_slots, p)
    ELSE IF <<week, class_index>> \in p.skip_set
         THEN count_loop(week, class_index + 1, available_slots, p)
    ELSE count_loop(week, class_index + 1, available_slots + 1, p)

count_available_slots(total_weeks, classes_per_week, first_week_classes, skip_slots) ==
    IF total_weeks < 1 \/ classes_per_week < 1
    THEN 0
    ELSE count_loop(1, 1, 0,
            [total_weeks |-> total_weeks,
             classes_per_week |-> clamp_classes_per_week(classes_per_week),
             first_week_classes |-> clamp_first_week_classes(classes_per_week, first_week_classes),
             skip_set |-> build_skip_set(total_weeks, classes_per_week,
                                         first_week_classes, skip_slots)])

(***************************************************************************)
(* Inputs of the scheduling engine.                                        *)
(***************************************************************************)
SkipItem(week, class, class_index, session) ==
    [week |-> week, class |-> class, class_index |-> class_index, session |-> session]

\* The entries a skip_slots list is drawn from: in the calendar, out of it,
\* keyed by 'class', by 'class_index' (with a falsy 'class') or by 'session',
\* and one whose week is missing.
SkipItems ==
    { SkipItem(IntV(1), IntV(1), NoneV, NoneV),
      SkipItem(IntV(1), IntV(2), NoneV, NoneV),
      SkipItem(IntV(2), IntV(1), NoneV, NoneV),
      SkipItem(IntV(2), NoneV, NoneV, IntV(2)),
      SkipItem(IntV(3), IntV(3), NoneV, NoneV),
      SkipItem(IntV(1), IntV(0), IntV(2), NoneV),
      SkipItem(IntV(0), IntV(1), NoneV, NoneV),
      SkipItem(NoneV, IntV(1), NoneV, NoneV) }

RECURSIVE SeqsUpTo(_, _)
SeqsUpTo(S, n) ==
    IF n = 0 THEN { <<>> }
    ELSE LET shorter == SeqsUpTo(S, n - 1)
         IN  shorter \cup { Append(s, x) : s \in { t \in shorter : Len(t) = n - 1 }, x \in S }

SkipLists == SeqsUpTo(SkipItems, MaxSkips)

\* classes_per_week below, inside and above the clamp's range.
CpwValues == (0..MaxCpw) \cup { MaxClassesPerWeek + 1 }

FrameInputs ==
    [total_weeks : 0..MaxWeeks,
     classes_per_week : CpwValues,
     first_week_classes : 0..(MaxCpw + 1),
     skip_slots : SkipLists]

EmptyTrace == [schedule |-> <<>>, cells |-> <<>>]

(***************************************************************************)
(* The scheduling engine applied to one input: count_available_slots,      *)
(* then build_schedule_frame for some number of sessions.                  *)
(***************************************************************************)
FrameInit ==
    /\ f_pc = "input"
    /\ f_in \in FrameInputs
    /\ f_available = 0
    /\ f_actual = 0
    /\ f_built = EmptyTrace

FrameIdle ==
    /\ f_pc = "idle"
    /\ f_in = [total_weeks |-> 0, classes_per_week |-> 0,
               first_week_classes |-> 0, skip_slots |-> <<>>]
    /\ f_available = 0
    /\ f_actual = 0
    /\ f_built = EmptyTrace

CountSlots ==
    /\ f_pc = "input"
    /\ f_available' = count_available_slots(f_in.total_weeks, f_in.classes_per_week,
                                            f_in.first_week_classes, f_in.skip_slots)
    /\ f_pc' = "counted"
    /\ UNCHANGED <<f_in, f_actual, f_built>>
    /\ UNCHANGED notFrameVars

BuildFrame ==
    /\ f_pc = "counted"
    /\ \E actual_classes \in 0..MaxActual :
         /\ f_actual' = actual_classes
         /\ f_built' = schedule_frame_trace(f_in.total_weeks, f_in.classes_per_week,
                                            actual_classes, f_in.first_week_classes,
                                            f_in.skip_slots)
    /\ f_pc' = "built"
    /\ UNCHANGED <<f_in, f_available>>
    /\ UNCHANGED notFrameVars

FrameNext == CountSlots \/ BuildFrame

(***************************************************************************)
(* generate_teaching_plan_schedule.                                        *)
(***************************************************************************)
\* The largest accepted available_slots - actual_classes.
MaxSlack == 6

\* Python's a // b on ints, b # 0 (the quotient rounded towards minus infinity).
PyFloorDiv(a, b) == IF b > 0 THEN a \div b ELSE (0 - a) \div (0 - b)

\* schedule_frame[:n] for n >= 0 (a negative n counts from the end).
PySliceTo(s, n) ==
    LET stop == IF n >= 0 THEN PyMin(n, Len(s)) ELSE PyMax(0, Len(s) + n)
    IN  SubSeq(s, 1, stop)

\* Mutant: the upper limit on the difference is not checked.
schedule_rejection_no_slack(in) ==
    IF in.hour_per_class = 0 THEN "ZeroDivisionError"
    ELSE LET actual_classes == PyFloorDiv(in.total_hours, in.hour_per_class)
             available_slots == count_available_slots(in.total_weeks, in.classes_per_week,
                                                      in.first_week_classes, in.skip_slots)
         IN  IF actual_classes > in.total_weeks * in.classes_per_week THEN "capacity"
             ELSE IF available_slots - actual_classes < 0 THEN "shortfall"
             ELSE ""

\* The checks made before the schedule frame is built: the error raised, or
\* "" when the call goes on.  hour_per_class = 0 makes total_hours //
\* hour_per_class raise ZeroDivisionError.
schedule_rejection(in) ==
    IF in.hour_per_class = 0 THEN "ZeroDivisionError"
    ELSE LET max_classes == in.total_weeks * in.classes_per_week
             actual_classes == PyFloorDiv(in.total_hours, in.hour_per_class)
             available_slots == count_available_slots(in.total_weeks, in.classes_per_week,
                                                      in.first_week_classes, in.skip_slots)
             diff == available_slots - actual_classes
         IN  IF actual_classes > max_classes THEN "capacity"
             ELSE IF diff < 0 THEN "shortfall"
             ELSE IF diff > MaxSlack THEN "slack"
             ELSE ""

\* last_class_frame
last_class_frame(schedule_frame, total_weeks, actual_classes) ==
    IF Len(schedule_frame) > 0
    THEN schedule_frame[Len(schedule_frame)]
    ELSE [week |-> total_weeks, order |-> actual_classes]

\* classes_to_gen_content and content_frame
content_frame(schedule_frame, actual_classes, final_review) ==
    PySliceTo(schedule_frame, IF final_review THEN actual_classes - 1 ELSE actual_classes)

PlanItem(week, order, title, hour) ==
    [week |-> week, order |-> order, title |-> title, hour |-> hour]

\* The review session appended by the caller when final_review is set.
review_item(schedule_frame, total_weeks, actual_classes, hour_per_class) ==
    LET last == last_class_frame(schedule_frame, total_weeks, actual_classes)
    IN  PlanItem(last.week, last.order, "review", hour_per_class)

\* The example of the specification: 18 weeks, 2 classes a week, 1 in the
\* first week, 72 hours in sessions of 4 hours, nothing skipped.
ExamplePlanInput(final_review) ==
    [total_weeks |-> 18, classes_per_week |-> 2, first_week_classes |-> 1,
     total_hours |-> 72, hour_per_class |-> 4, skip_slots |-> <<>>,
     final_review |-> final_review]

PlanInputs ==
    [total_weeks : (-1)..MaxWeeks,
     classes_per_week : { -1 } \cup CpwValues,
     first_week_classes : 1..(MaxCpw + 1),
     total_hours : 0..MaxHours,
     hour_per_class : 0..2,
     skip_slots : SeqsUpTo(SkipItems, MaxPlanSkips),
     final_review : BOOLEAN]
    \cup { ExamplePlanInput(b) : b \in BOOLEAN }

\* What the model may answer to a request carrying the frame `request`: the
\* array asked for, the array with a week moved, with an item dropped, or
\* with an item repeated.
LLMItem(slot, hour) == PlanItem(slot.week, slot.order, "llm", hour)

LLMSchedules(request, hour) ==
    LET echo == [i \in 1..Len(request) |-> LLMItem(request[i], hour)]
    IN  { echo }
        \cup (IF Len(request) = 0 THEN { <<PlanItem(1, 1, "llm", hour)>> }
              ELSE { [echo EXCEPT ![1].week = @ + 1],
                     SubSeq(echo, 1, Len(echo) - 1),
                     Append(echo, echo[Len(echo)]) })

PlanIdleInput ==
    [total_weeks |-> 0, classes_per_week |-> 0, first_week_classes |-> 0,
     total_hours |-> 0, hour_per_class |-> 0, skip_slots |-> <<>>,
     final_review |-> FALSE]

PlanInit ==
    /\ tp_pc = "call"
    /\ tp_in \in PlanInputs
    /\ tp_actual = 0
    /\ tp_available = 0
    /\ tp_frame = <<>>
    /\ tp_request = <<>>
    /\ tp_llm_calls = 0
    /\ tp_error = ""
    /\ tp_result = <<>>

PlanIdle ==
    /\ tp_pc = "idle"
    /\ tp_in = PlanIdleInput
    /\ tp_actual = 0
    /\ tp_available = 0
    /\ tp_frame = <<>>
    /\ tp_request = <<>>
    /\ tp_llm_calls = 0
    /\ tp_error = ""
    /\ tp_result = <<>>

\* Lines 133-165: a check fails and the call raises before any request.
TpReject ==
    /\ tp_pc = "call"
    /\ schedule_rejection(tp_in) # ""
    /\ tp_error' = schedule_rejection(tp_in)
    /\ tp_actual' = IF tp_in.hour_per_class = 0 THEN 0
                    ELSE PyFloorDiv(tp_in.total_hours, tp_in.hour_per_class)
    /\ tp_available' = IF schedule_rejection(tp_in) \in { "shortfall", "slack" }
                       THEN count_available_slots(tp_in.total_weeks, tp_in.classes_per_week,
                                                  tp_in.first_week_classes, tp_in.skip_slots)
                       ELSE 0
    /\ tp_pc' = "raised"
    /\ UNCHANGED <<tp_in, tp_frame, tp_request, tp_llm_calls, tp_result>>
    /\ UNCHANGED notPlanVars

\* Lines 133-242: the checks pass, the frame is built and the completion
\* request is sent.
TpRequest ==
    /\ tp_pc = "call"
    /\ schedule_rejection(tp_in) = ""
    /\ LET actual_classes == PyFloorDiv(tp_in.total_hours, tp_in.hour_per_class)
           schedule_frame == build_schedule_frame(tp_in.total_weeks, tp_in.classes_per_week,
                                                  actual_classes, tp_in.first_week_classes,
                                                  tp_in.skip_slots)
       IN  /\ tp_actual' = actual_classes
           /\ tp_available' = count_available_slots(tp_in.total_weeks, tp_in.classes_per_week,
                                                    tp_in.first_week_classes, tp_in.skip_slots)
           /\ tp_frame' = schedule_frame
           /\ tp_request' = content_frame(schedule_frame, actual_classes, tp_in.final_review)
    /\ tp_llm_calls' = tp_llm_calls + 1
    /\ tp_pc' = "awaiting"
    /\ UNCHANGED <<tp_in, tp_error, tp_result>>
    /\ UNCHANGED notPlanVars

\* The completion call raises, or its text is empty or not JSON: the
\* exception leaves the function (lines 235-253).
TpLLMFail ==
    /\ tp_pc = "awaiting"
    /\ \E e \in { "APIError", "EmptyCompletion", "JSONDecodeError" } : tp_error' = e
    /\ tp_pc' = "raised"
    /\ UNCHANGED <<tp_in, tp_actual, tp_available, tp_frame, tp_request,
                   tp_llm_calls, tp_result>>
    /\ UNCHANGED notPlanVars

\* The completion is a JSON array: it is returned, with the review session
\* appended when final_review is set (lines 253-269).
TpLLMReturn ==
    /\ tp_pc = "awaiting"
    /\ \E schedule \in LLMSchedules(tp_request, tp_in.hour_per_class) :
         tp_result' = IF tp_in.final_review
                      THEN Append(schedule, review_item(tp_frame, tp_in.total_weeks,
                                                        tp_actual, tp_in.hour_per_class))
                      ELSE schedule
    /\ tp_pc' = "returned"
    /\ UNCHANGED <<tp_in, tp_actual, tp_available, tp_frame, tp_request,
                   tp_llm_calls, tp_error>>
    /\ UNCHANGED notPlanVars

PlanNext == TpReject \/ TpRequest \/ TpLLMFail \/ TpLLMReturn


(***************************************************************************)
(* The time-allocation validator (ai_service.py).                          *)
(***************************************************************************)
MinutesPerHour == 40
MinReviewTime == 5
MaxReviewTime == 15
MinNewLessons == 3
MaxNewLessons == 5
AssessmentMinutes == 10
SummaryMinutes == 5

\* isinstance(x, int)
IsInt(x) == x.k = "int"

\* A new_lessons value: a list of items, null / missing, a number other
\* than 0, or the number 0 (falsy, and no list).
ListV(items) == [k |-> "list", items |-> items]
NoListV == [k |-> "none", items |-> <<>>]
NumberV == [k |-> "int", items |-> <<>>]
ZeroV == [k |-> "zero", items |-> <<>>]

\* An element of new_lessons: an object with a "time" value, or something
\* that is not an object.
DictItem(time) == [k |-> "dict", time |-> time]
OtherItem == [k |-> "other", time |-> NoneV]

\* The record carries the model's own values of the other system keys
\* until the caller overwrites them.
ModelProjectName == "project named by the model"
ModelNumber == IntV(99)

LessonData(hours, review_time, new_lessons) ==
    [hours |-> hours, review_time |-> review_time, new_lessons |-> new_lessons,
     project_name |-> ModelProjectName, week |-> ModelNumber,
     sequence |-> ModelNumber, total_hours |-> ModelNumber]

NoData ==
    [hours |-> NoneV, review_time |-> NoneV, new_lessons |-> NoListV,
     project_name |-> "", week |-> NoneV, sequence |-> NoneV, total_hours |-> NoneV]

Verdict(ok, reason) == [ok |-> ok, reason |-> reason]

\* Mutant: the five minutes of the summary are left out of the sum test.
RECURSIVE validate_items_without_summary(_, _, _, _, _)
validate_items_without_summary(items, i, new_sum, review_time, total_minutes) ==
    IF i > Len(items)
    THEN IF review_time + new_sum + AssessmentMinutes # total_minutes
         THEN Verdict(FALSE, "sum_mismatch")
         ELSE Verdict(TRUE, "ok")
    ELSE IF items[i].k # "dict" THEN Verdict(FALSE, "non_object_item")
    ELSE IF ~IsInt(items[i].time) \/ items[i].time.v <= 0
         THEN Verdict(FALSE, "time_not_positive_int")
    ELSE validate_items_without_summary(items, i + 1, new_sum + items[i].time.v,
                                        review_time, total_minutes)

\* Mutant: a time of zero passes the test of the items.
RECURSIVE validate_items_allowing_zero(_, _, _, _, _)
validate_items_allowing_zero(items, i, new_sum, review_time, total_minutes) ==
    IF i > Len(items)
    THEN IF review_time + new_sum + AssessmentMinutes + SummaryMinutes # total_minutes
         THEN Verdict(FALSE, "sum_mismatch")
         ELSE Verdict(TRUE, "ok")
    ELSE IF items[i].k # "dict" THEN Verdict(FALSE, "non_object_item")
    ELSE IF ~IsInt(items[i].time) \/ items[i].time.v < 0
         THEN Verdict(FALSE, "time_not_positive_int")
    ELSE validate_items_allowing_zero(items, i + 1, new_sum + items[i].time.v,
                                      review_time, total_minutes)

\* The loop over new_lessons and the sum test that follows it (lines 275-285).
RECURSIVE validate_items(_, _, _, _, _)
validate_items(items, i, new_sum, review_time, total_minutes) ==
    IF i > Len(items)
    THEN IF review_time + new_sum + AssessmentMinutes + SummaryMinutes # total_minutes
         THEN Verdict(FALSE, "sum_mismatch")
         ELSE Verdict(TRUE, "ok")
    ELSE IF items[i].k # "dict" THEN Verdict(FALSE, "non_object_item")
    ELSE IF ~IsInt(items[i].time) \/ items[i].time.v <= 0
         THEN Verdict(FALSE, "time_not_positive_int")
    ELSE validate_items(items, i + 1, new_sum + items[i].time.v, review_time, total_minutes)

\* Mutant: the number of new_lessons is tested before review_time.
validate_time_allocation_count_first(lesson_plan_data, hours) ==
    IF ~IsInt(hours) \/ hours.v <= 0 THEN Verdict(FALSE, "invalid_hours")
    ELSE LET total_minutes == hours.v * MinutesPerHour
             review_time == lesson_plan_data.review_time
             new_lessons == lesson_plan_data.new_lessons
         IN  IF \/ new_lessons.k # "list"
                \/ ~(/\ MinNewLessons <= Len(new_lessons.items)
                     /\ Len(new_lessons.items) <= MaxNewLessons)
             THEN Verdict(FALSE, "new_lessons_count")
             ELSE IF \/ ~IsInt(review_time)
                     \/ ~(MinReviewTime <= review_time.v /\ review_time.v <= MaxReviewTime)
             THEN Verdict(FALSE, "review_time_range")
             ELSE validate_items(new_lessons.items, 1, 0, review_time.v, total_minutes)

validate_time_allocation(lesson_plan_data, hours) ==
    IF ~IsInt(hours) \/ hours.v <= 0 THEN Verdict(FALSE, "invalid_hours")
    ELSE LET total_minutes == hours.v * MinutesPerHour
             review_time == lesson_plan_data.review_time
             new_lessons == lesson_plan_data.new_lessons
         IN  IF \/ ~IsInt(review_time)
                \/ ~(MinReviewTime <= review_time.v /\ review_time.v <= MaxReviewTime)
             THEN Verdict(FALSE, "review_time_range")
             ELSE IF \/ new_lessons.k # "list"
                     \/ ~(/\ MinNewLessons <= Len(new_lessons.items)
                          /\ Len(new_lessons.items) <= MaxNewLessons)
             THEN Verdict(FALSE, "new_lessons_count")
             ELSE validate_items(new_lessons.items, 1, 0, review_time.v, total_minutes)

(***************************************************************************)
(* The lesson-plan stream (lesson_plan_api.py): generation, validation,    *)
(* the reconciliation loop, rendering and saving.                          *)
(***************************************************************************)
\* range(2) of the reconciliation loop.
RepairBudget == 2

\* A correction response: an object with review_time and new_lessons, or
\* JSON that is not an object.
Allocation(review_time, new_lessons) ==
    [k |-> "dict", review_time |-> review_time, new_lessons |-> new_lessons]
OtherAllocation == [k |-> "other", review_time |-> NoneV, new_lessons |-> NoListV]

Merged(raised, data) == [raised |-> raised, data |-> data]

\* The loop of lines 243-247 from index idx (1-based) on: the items of the
\* record so far, and the exception that ended the loop, if any.
RECURSIVE merge_times(_, _, _)
merge_times(items, alloc_items, idx) ==
    IF idx > Len(items) THEN [raised |-> "", items |-> items]
    ELSE IF idx > Len(alloc_items) THEN merge_times(items, alloc_items, idx + 1)
    ELSE IF alloc_items[idx].k # "dict" THEN [raised |-> "AttributeError", items |-> items]
    ELSE IF ~IsInt(alloc_items[idx].time) THEN merge_times(items, alloc_items, idx + 1)
    ELSE IF items[idx].k # "dict" THEN [raised |-> "TypeError", items |-> items]
    ELSE merge_times([items EXCEPT ![idx].time = alloc_items[idx].time], alloc_items, idx + 1)

\* Mutant: the list of the correction replaces the list of the record.
merge_allocation_replacing_list(lesson_plan_data, allocation) ==
    IF allocation.k # "dict" THEN Merged("", lesson_plan_data)
    ELSE IF allocation.new_lessons.k = "list"
    THEN Merged("", [lesson_plan_data EXCEPT !.new_lessons = allocation.new_lessons])
    ELSE Merged("", lesson_plan_data)

\* The merge step (lines 237-247).
merge_allocation(lesson_plan_data, allocation) ==
    IF allocation.k # "dict" THEN Merged("", lesson_plan_data)
    ELSE LET with_review ==
                 IF IsInt(allocation.review_time)
                 THEN [lesson_plan_data EXCEPT !.review_time = allocation.review_time]
                 ELSE lesson_plan_data
         IN  IF allocation.new_lessons.k = "list" /\ with_review.new_lessons.k = "list"
             THEN LET m == merge_times(with_review.new_lessons.items,
                                       allocation.new_lessons.items, 1)
                  IN  Merged(m.raised, [with_review EXCEPT !.new_lessons.items = m.items])
             ELSE Merged("", with_review)

\* regenerate_time_allocation before its request (lines 295-299):
\* `lesson_plan_data.get("new_lessons") or []` turns a missing, null or
\* zero new_lessons into the empty list; iterating a number other than 0
\* raises TypeError.
regenerate_raises(lesson_plan_data) == lesson_plan_data.new_lessons.k = "int"

\* Mutant: the loop allows one repair call more.
repair_wanted_one_more(ok, repairs) == ~ok /\ repairs <= RepairBudget

\* Whether the reconciliation loop makes one more repair call: the record
\* failed validation and fewer than range(2) calls were made.
repair_wanted(ok, repairs) == ~ok /\ repairs < RepairBudget

LessonError(kind, reason) == [kind |-> kind, reason |-> reason]
NoError == LessonError("", "")

\* The values the model may give review_time and a time.
ReviewValues == { NoneV, IntV(4), IntV(5), IntV(10), IntV(15), IntV(16) }
LessonItems == { OtherItem, DictItem(NoneV), DictItem(IntV(0)), DictItem(IntV(3)),
                 DictItem(IntV(5)) }

\* The new_lessons lists of the first response: one element too few to one
\* too many, the positions a correction can reach filled freely and the
\* others with one element repeated.
LessonLists ==
    { h \o [i \in 1..(n - Len(h)) |-> t] :
        h \in { x \in SeqsUpTo(LessonItems, MaxAllocLen) : Len(x) = MaxAllocLen },
        t \in LessonItems,
        n \in PyMax(MaxAllocLen, MinNewLessons - 1)..(MaxNewLessons + 1) }

\* The example of the specification, for a session of 4 hours, and the same
\* with one minute too many.
ExampleData(last) ==
    LessonData(IntV(99), IntV(10),
               ListV(<<DictItem(IntV(50)), DictItem(IntV(60)), DictItem(IntV(last))>>))

\* The objects generate_lesson_plan_content may return for a session of
\* `hours` hours (the model's own "hours" is 99: the caller overwrites it).
LessonResponses(hours) ==
    IF hours = IntV(4)
    THEN { ExampleData(25), ExampleData(26) }
    ELSE { LessonData(IntV(99), r, nl) :
             r \in ReviewValues,
             nl \in { ListV(l) : l \in LessonLists } \cup { NoListV, NumberV, ZeroV } }

AllocationItems == { OtherItem, DictItem(NoneV), DictItem(IntV(3)), DictItem(IntV(5)) }

\* The responses of regenerate_time_allocation.
Allocations ==
    { Allocation(r, nl) :
        r \in { NoneV, IntV(5), IntV(10) },
        nl \in { ListV(l) : l \in SeqsUpTo(AllocationItems, MaxAllocLen) } \cup { NoListV } }
    \cup { OtherAllocation }

\* ---- The system fields of a lesson (lesson_plan_api.py lines 142-221) ----

\* One row of the stored plan parameters, as json.loads gives it.
ScheduleItem(order, hour, week, title) ==
    [order |-> order, hour |-> hour, week |-> week, title |-> title,
     project_name |-> ""]
NoItem == [order |-> NoneV, hour |-> NoneV, week |-> NoneV, title |-> "",
           project_name |-> "", missing |-> TRUE]

\* The stored plan parameters and the session the request names.
LessonPlan(schedule, hour_per_class, sequence) ==
    [schedule |-> schedule, hour_per_class |-> hour_per_class, sequence |-> sequence]
NoPlan == LessonPlan(<<>>, NoneV, 0)

\* get_plan_item (plan_params.py lines 129-133): the first row of that order.
RECURSIVE get_plan_item_from(_, _, _)
get_plan_item_from(schedule, sequence, i) ==
    IF i > Len(schedule) THEN NoItem
    ELSE IF schedule[i].order = IntV(sequence) THEN schedule[i]
    ELSE get_plan_item_from(schedule, sequence, i + 1)

get_plan_item(schedule, sequence) == get_plan_item_from(schedule, sequence, 1)

\* compute_cumulative_hours (plan_params.py lines 136-150): over the rows
\* whose order is an integer up to `sequence`, the row's hour when it is a
\* positive integer, else the default when that is one.
RECURSIVE compute_cumulative_hours(_, _, _, _, _)
compute_cumulative_hours(schedule, sequence, default_hour, i, total) ==
    IF i > Len(schedule) THEN total
    ELSE LET order == schedule[i].order
             hour == schedule[i].hour
         IN  IF IsInt(order) /\ order.v <= sequence
             THEN IF IsInt(hour) /\ hour.v > 0
                  THEN compute_cumulative_hours(schedule, sequence, default_hour,
                                                i + 1, total + hour.v)
                  ELSE IF IsInt(default_hour) /\ default_hour.v > 0
                  THEN compute_cumulative_hours(schedule, sequence, default_hour,
                                                i + 1, total + default_hour.v)
                  ELSE compute_cumulative_hours(schedule, sequence, default_hour,
                                                i + 1, total)
             ELSE compute_cumulative_hours(schedule, sequence, default_hour,
                                           i + 1, total)

\* Lines 151-153: the plan's hour_per_class when it is a positive integer,
\* else the hour of the row when that is an integer.
resolve_hour_per_class(plan, plan_item) ==
    IF IsInt(plan.hour_per_class) /\ plan.hour_per_class.v > 0
    THEN plan.hour_per_class
    ELSE IF IsInt(plan_item.hour) THEN plan_item.hour ELSE NoneV

\* Lines 143-156: the ValueError the plan is refused with, "" when it is
\* accepted.
plan_rejection(plan) ==
    LET plan_item == get_plan_item(plan.schedule, plan.sequence)
        hour_per_class == resolve_hour_per_class(plan, plan_item)
    IN  IF plan.schedule = <<>> THEN "plan parameters missing"
        ELSE IF plan_item = NoItem THEN "sequence outside the plan"
        ELSE IF ~IsInt(hour_per_class) \/ hour_per_class.v <= 0
        THEN "plan without hours per session"
        ELSE ""

\* The name given to a session whose row has no title (line 163).
SessionName(sequence) == "session " \o ToString(sequence)

\* Lines 158-168: system_fields of an accepted plan.
system_fields(plan) ==
    LET plan_item == get_plan_item(plan.schedule, plan.sequence)
        hour_per_class == resolve_hour_per_class(plan, plan_item)
    IN  [project_name |-> IF plan_item.title # "" THEN plan_item.title
                          ELSE IF plan_item.project_name # ""
                          THEN plan_item.project_name
                          ELSE SessionName(plan.sequence),
         week |-> IF IsInt(plan_item.week) THEN plan_item.week
                  ELSE IntV(plan.sequence),
         sequence |-> IntV(plan.sequence),
         hours |-> IF IsInt(plan_item.hour) THEN plan_item.hour ELSE hour_per_class,
         total_hours |-> IntV(compute_cumulative_hours(plan.schedule, plan.sequence,
                                                       hour_per_class, 1, 0))]

NoSystem == [project_name |-> "", week |-> NoneV, sequence |-> NoneV,
             hours |-> NoneV, total_hours |-> NoneV]

\* What the model may answer for the system keys: its own values, or
\* nothing.
ModelSystemValues ==
    { [project_name |-> ModelProjectName, week |-> ModelNumber,
       sequence |-> ModelNumber, hours |-> ModelNumber, total_hours |-> ModelNumber],
      NoSystem }

\* Mutant: the week of the model's answer is kept.
overwrite_system_fields_keeping_week(lesson_plan_data, fields) ==
    [lesson_plan_data EXCEPT !.project_name = fields.project_name,
                             !.sequence = fields.sequence,
                             !.hours = fields.hours,
                             !.total_hours = fields.total_hours]

\* Lines 216-221: the five system keys of the generated record are set
\* from system_fields.
overwrite_system_fields(lesson_plan_data, fields) ==
    [lesson_plan_data EXCEPT !.project_name = fields.project_name,
                             !.week = fields.week,
                             !.sequence = fields.sequence,
                             !.hours = fields.hours,
                             !.total_hours = fields.total_hours]

\* The stored plans and sessions of the requests: plans whose rows all carry
\* a positive hour, plans with rows lacking one (a zero, a missing hour, a
\* row without order), and plans line 143-156 refuse.
LessonPlans ==
    { LessonPlan(<<ScheduleItem(IntV(1), IntV(4), IntV(1), "Project 1: a"),
                   ScheduleItem(IntV(2), IntV(4), IntV(1), "Project 2: b")>>,
                 IntV(4), sequence) : sequence \in 1..3 }
    \cup
    { LessonPlan(<<ScheduleItem(IntV(2), IntV(1), IntV(2), ""),
                   ScheduleItem(IntV(1), IntV(4), NoneV, "Project 1: a")>>,
                 hour_per_class, sequence) :
        hour_per_class \in { NoneV, IntV(0) }, sequence \in 1..2 }
    \cup
    { LessonPlan(<<ScheduleItem(IntV(1), NoneV, IntV(1), "Project 1: a"),
                   ScheduleItem(NoneV, IntV(4), IntV(1), "Project 2: b"),
                   ScheduleItem(IntV(2), IntV(0), IntV(2), "Project 3: c")>>,
                 hour_per_class, sequence) :
        hour_per_class \in { NoneV, IntV(1), IntV(4) }, sequence \in 1..2 }
    \cup
    { LessonPlan(<<>>, IntV(4), 1) }

\* The payload of sse_event: the stage and the progress of an event.
StreamEvent(stage, progress) == [stage |-> stage, progress |-> progress]

LessonInit ==
    /\ lp_pc = "start"
    /\ lp_plan = NoPlan
    /\ lp_system = NoSystem
    /\ lp_hours = NoneV
    /\ lp_data = NoData
    /\ lp_ok = FALSE
    /\ lp_reason = ""
    /\ lp_checks = <<>>
    /\ lp_gen_calls = 0
    /\ lp_repairs = 0
    /\ lp_error = NoError
    /\ lp_rendered = NoData
    /\ lp_saved = NoData
    /\ lp_events = <<>>

LessonIdle ==
    /\ lp_pc = "idle"
    /\ lp_plan = NoPlan
    /\ lp_system = NoSystem
    /\ lp_hours = NoneV
    /\ lp_data = NoData
    /\ lp_ok = FALSE
    /\ lp_reason = ""
    /\ lp_checks = <<>>
    /\ lp_gen_calls = 0
    /\ lp_repairs = 0
    /\ lp_error = NoError
    /\ lp_rendered = NoData
    /\ lp_saved = NoData
    /\ lp_events = <<>>

\* The except branch of event_generator (lines 325-328): the exception is
\* caught and the error event is yielded.
LpFail(kind, reason) ==
    /\ lp_pc' = "error"
    /\ lp_error' = LessonError(kind, reason)
    /\ lp_events' = Append(lp_events, StreamEvent("error", 0))

\* Lines 118-126: the generator yields its first event and is suspended
\* there until its consumer asks for the next one.
LpAnalyzing ==
    /\ lp_pc = "start"
    /\ lp_events' = Append(lp_events, StreamEvent("analyzing", 10))
    /\ lp_pc' = "analyzing"
    /\ UNCHANGED <<lp_plan, lp_system, lp_hours, lp_data, lp_ok, lp_reason, lp_checks,
                   lp_gen_calls, lp_repairs, lp_error, lp_rendered, lp_saved>>
    /\ UNCHANGED notLessonVars

\* Line 127: resumed, the generator awaits asyncio.sleep(0.5).
LpSleepAfterAnalyzing ==
    /\ lp_pc = "analyzing"
    /\ lp_pc' = "sleep_analyzing"
    /\ UNCHANGED <<lp_plan, lp_system, lp_hours, lp_data, lp_ok, lp_reason, lp_checks,
                   lp_gen_calls, lp_repairs, lp_error, lp_rendered, lp_saved, lp_events>>
    /\ UNCHANGED notLessonVars

\* Lines 129-136: the second event.
LpParsing ==
    /\ lp_pc = "sleep_analyzing"
    /\ lp_events' = Append(lp_events, StreamEvent("parsing", 20))
    /\ lp_pc' = "parsing"
    /\ UNCHANGED <<lp_plan, lp_system, lp_hours, lp_data, lp_ok, lp_reason, lp_checks,
                   lp_gen_calls, lp_repairs, lp_error, lp_rendered, lp_saved>>
    /\ UNCHANGED notLessonVars

\* Lines 138-156 and 325-328: the plan parameters cannot be resolved, or
\* name no such session or no hours: ValueError, and the error event.
\* (resolve_plan_params holds no await of its own: line 142 does not
\* suspend the generator.)
LpPlanFail ==
    /\ lp_pc = "parsing"
    /\ \E plan \in LessonPlans : plan_rejection(plan) # ""
    /\ LpFail("ValueError", "plan")
    /\ UNCHANGED <<lp_plan, lp_system, lp_hours, lp_data, lp_ok, lp_reason, lp_checks, lp_gen_calls,
                   lp_repairs, lp_rendered, lp_saved>>
    /\ UNCHANGED notLessonVars

\* Lines 104-114 and 325-328: the plan parameters are built from the
\* content of the plan and the commit that stores them raises; the error
\* event is yielded.
LpPlanCommitFail ==
    /\ lp_pc = "parsing"
    /\ LpFail("SQLAlchemyError", "plan")
    /\ UNCHANGED <<lp_plan, lp_system, lp_hours, lp_data, lp_ok, lp_reason, lp_checks, lp_gen_calls,
                   lp_repairs, lp_rendered, lp_saved>>
    /\ UNCHANGED notLessonVars

\* Lines 138-185: the plan is accepted, the system fields are computed and
\* the third event is yielded.
LpRetrieving ==
    /\ lp_pc = "parsing"
    /\ \E plan \in LessonPlans :
         /\ plan_rejection(plan) = ""
         /\ lp_plan' = plan
         /\ lp_system' = system_fields(plan)
         /\ lp_hours' = system_fields(plan).hours
    /\ lp_events' = Append(lp_events, StreamEvent("retrieving", 30))
    /\ lp_pc' = "retrieving"
    /\ UNCHANGED <<lp_data, lp_ok, lp_reason, lp_checks, lp_gen_calls, lp_repairs, lp_error,
                   lp_rendered, lp_saved>>
    /\ UNCHANGED notLessonVars

\* Lines 187-193: the course context is read, then the generator awaits
\* asyncio.sleep(0.5).
LpSleepAfterRetrieving ==
    /\ lp_pc = "retrieving"
    /\ lp_pc' = "sleep_retrieving"
    /\ UNCHANGED <<lp_plan, lp_system, lp_hours, lp_data, lp_ok, lp_reason, lp_checks,
                   lp_gen_calls, lp_repairs, lp_error, lp_rendered, lp_saved, lp_events>>
    /\ UNCHANGED notLessonVars

\* Lines 195-202: the fourth event; no request is sent yet.
LpGenerating ==
    /\ lp_pc = "sleep_retrieving"
    /\ lp_events' = Append(lp_events, StreamEvent("generating", 50))
    /\ lp_pc' = "generating"
    /\ UNCHANGED <<lp_plan, lp_system, lp_hours, lp_data, lp_ok, lp_reason, lp_checks,
                   lp_gen_calls, lp_repairs, lp_error, lp_rendered, lp_saved>>
    /\ UNCHANGED notLessonVars

\* Lines 204-214: resumed, the generator sends the generation request and
\* awaits its answer.
LpRequestGenerate ==
    /\ lp_pc = "generating"
    /\ lp_gen_calls' = lp_gen_calls + 1
    /\ lp_pc' = "await_generate"
    /\ UNCHANGED <<lp_plan, lp_system, lp_hours, lp_data, lp_ok, lp_reason, lp_checks,
                   lp_repairs, lp_error, lp_rendered, lp_saved, lp_events>>
    /\ UNCHANGED notLessonVars

\* generate_lesson_plan_content raises: the API call fails, the completion
\* is empty, or it is not JSON (ai_service.py lines 251-262).  The same
\* when the JSON is not an object and line 217 raises TypeError.
LpGenerateFail ==
    /\ lp_pc = "await_generate"
    /\ \E kind \in { "APIError", "EmptyCompletion", "JSONDecodeError", "TypeError" } :
         LpFail(kind, "generate")
    /\ UNCHANGED <<lp_plan, lp_system, lp_hours, lp_data, lp_ok, lp_reason, lp_checks, lp_gen_calls,
                   lp_repairs, lp_rendered, lp_saved>>
    /\ UNCHANGED notLessonVars

\* What follows a validation of `data` with verdict `v` after `repairs`
\* repair calls (lines 228-260): the event of line 254, one more repair
\* call, or the error of line 252.
LpAfterCheck(data, v, repairs) ==
    /\ lp_data' = data
    /\ lp_ok' = v.ok
    /\ lp_reason' = v.reason
    /\ lp_checks' = Append(lp_checks, v.ok)
    /\ IF v.ok
       THEN /\ lp_pc' = "generated"
            /\ lp_events' = Append(lp_events, StreamEvent("generating", 70))
            /\ lp_repairs' = repairs
            /\ lp_error' = NoError
       ELSE IF repair_wanted(v.ok, repairs)
       THEN IF regenerate_raises(data)
            THEN /\ LpFail("TypeError", "regenerate")
                 /\ lp_repairs' = repairs
            ELSE /\ lp_pc' = "await_repair"
                 /\ lp_repairs' = repairs + 1
                 /\ lp_events' = lp_events
                 /\ lp_error' = NoError
       ELSE /\ LpFail("validation", v.reason)
            /\ lp_repairs' = repairs

\* Lines 204-260: the generated object arrives, its system fields are
\* overwritten and it is validated.
LpGenerateReturn ==
    /\ lp_pc = "await_generate"
    /\ \E resp \in LessonResponses(lp_hours), own \in ModelSystemValues :
         LET data == overwrite_system_fields(overwrite_system_fields(resp, own),
                                             lp_system)
         IN  LpAfterCheck(data, validate_time_allocation(data, lp_system.hours),
                          lp_repairs)
    /\ UNCHANGED <<lp_plan, lp_system, lp_hours, lp_gen_calls, lp_rendered, lp_saved>>
    /\ UNCHANGED notLessonVars

\* regenerate_time_allocation raises (ai_service.py lines 328-339).
LpRepairFail ==
    /\ lp_pc = "await_repair"
    /\ \E kind \in { "APIError", "EmptyCompletion", "JSONDecodeError" } :
         LpFail(kind, "regenerate")
    /\ UNCHANGED <<lp_plan, lp_system, lp_hours, lp_data, lp_ok, lp_reason, lp_checks, lp_gen_calls,
                   lp_repairs, lp_rendered, lp_saved>>
    /\ UNCHANGED notLessonVars

\* Lines 237-260: a correction arrives, is merged and the record is
\* validated again; an exception of the merge leaves the record as far as
\* it was merged.
LpRepairReturn ==
    /\ lp_pc = "await_repair"
    /\ \E allocation \in Allocations :
         LET m == merge_allocation(lp_data, allocation)
         IN  IF m.raised # ""
             THEN /\ LpFail(m.raised, "merge")
                  /\ lp_data' = m.data
                  /\ UNCHANGED <<lp_ok, lp_reason, lp_checks, lp_repairs>>
             ELSE LpAfterCheck(m.data, validate_time_allocation(m.data, lp_hours),
                               lp_repairs)
    /\ UNCHANGED <<lp_plan, lp_system, lp_hours, lp_gen_calls, lp_rendered, lp_saved>>
    /\ UNCHANGED notLessonVars

\* Lines 262-269: resumed after the event of line 254, the generator
\* yields the rendering event; nothing is rendered yet.
LpRendering ==
    /\ lp_pc = "generated"
    /\ lp_events' = Append(lp_events, StreamEvent("rendering", 85))
    /\ lp_pc' = "rendering"
    /\ UNCHANGED <<lp_plan, lp_system, lp_hours, lp_data, lp_ok, lp_reason, lp_checks,
                   lp_gen_calls, lp_repairs, lp_error, lp_rendered, lp_saved>>
    /\ UNCHANGED notLessonVars

\* Lines 272-323: the record is rendered, saved and sent in the completed
\* event.
LpRender ==
    /\ lp_pc = "rendering"
    /\ lp_rendered' = lp_data
    /\ lp_saved' = lp_data
    /\ lp_pc' = "completed"
    /\ lp_events' = Append(lp_events, StreamEvent("completed", 100))
    /\ UNCHANGED <<lp_plan, lp_system, lp_hours, lp_data, lp_ok, lp_reason, lp_checks, lp_gen_calls,
                   lp_repairs, lp_error>>
    /\ UNCHANGED notLessonVars

\* render_lesson_plan_docx raises (line 272): nothing is saved.
LpRenderFail ==
    /\ lp_pc = "rendering"
    /\ LpFail("render", "render")
    /\ UNCHANGED <<lp_plan, lp_system, lp_hours, lp_data, lp_ok, lp_reason, lp_checks, lp_gen_calls,
                   lp_repairs, lp_rendered, lp_saved>>
    /\ UNCHANGED notLessonVars

\* The document is rendered (line 272) and saving it raises (the query,
\* the unlink of the old file, the commit or the refresh of lines
\* 277-312): the file is on disk and the stream ends with the error event.
\* A commit that raises leaves no row; a refresh that raises follows a
\* commit that stored it.
LpSaveFail ==
    /\ lp_pc = "rendering"
    /\ lp_rendered' = lp_data
    /\ lp_saved' \in { lp_saved, lp_data }
    /\ LpFail("save", "save")
    /\ UNCHANGED <<lp_plan, lp_system, lp_hours, lp_data, lp_ok, lp_reason, lp_checks, lp_gen_calls,
                   lp_repairs>>
    /\ UNCHANGED notLessonVars

\* One action per stretch of event_generator between two points where it
\* is suspended (a yield or an await).  A consumer that stops reading
\* leaves the generator at its yield: the behaviour stutters there.
LessonNext ==
    \/ LpAnalyzing
    \/ LpSleepAfterAnalyzing
    \/ LpParsing
    \/ LpPlanFail
    \/ LpPlanCommitFail
    \/ LpRetrieving
    \/ LpSleepAfterRetrieving
    \/ LpGenerating
    \/ LpRequestGenerate
    \/ LpGenerateFail
    \/ LpGenerateReturn
    \/ LpRepairFail
    \/ LpRepairReturn
    \/ LpRendering
    \/ LpRender
    \/ LpRenderFail
    \/ LpSaveFail

(***************************************************************************)
(* The LLM client adapter run_prompt (copyright_service.py).               *)
(***************************************************************************)
\* Mutant: a fourth attempt.
FourAttempts == 3 + 1

\* range(3) of the attempt loop.
AttemptBudget == 3

\* An exception raised by the completion call: its class, its status_code
\* and response.status_code attributes (0: none), and the words of
\* str(error), repr(error) and its body that the classifier looks for.
ApiError(cls, status_code, response_status, text) ==
    [cls |-> cls, status_code |-> status_code, response_status |-> response_status,
     text |-> text]
NoApiError == ApiError("", 0, 0, "")

ApiErrors ==
    { ApiError("RateLimitError", 0, 0, "quota exceeded"),
      ApiError("APIStatusError", 429, 0, "slow down"),
      ApiError("Exception", 0, 429, "bad response"),
      ApiError("Exception", 0, 0, "Rate limit reached"),
      ApiError("Exception", 0, 0, "Too Many Requests"),
      ApiError("Exception", 0, 0, "HTTP 429"),
      ApiError("JSONDecodeError", 0, 0, "Expecting value: line 1 column 1 (char 0)"),
      ApiError("ValueError", 0, 0, "Expecting value"),
      ApiError("APIConnectionError", 0, 0, "Connection error."),
      ApiError("APIStatusError", 500, 0, "Internal error") }

\* _collect_error_text(error).lower(), as far as the classifier reads it:
\* the vocabulary the lower-cased text contains.
lower_text_mentions(text) ==
    CASE text = "Rate limit reached" -> { "rate limit" }
      [] text = "Rate Limit triggered; retry later or change provider" -> { "rate limit" }
      [] text = "Too Many Requests" -> { "too many requests" }
      [] text = "HTTP 429" -> { "429" }
      [] text = "[Errno 28] No space left on device: 'copyright_projects/429/config.json'"
           -> { "429" }
      [] OTHER -> {}

is_rate_limit_error(error) ==
    \/ error.cls = "RateLimitError"
    \/ error.status_code = 429
    \/ error.response_status = 429
    \/ lower_text_mentions(error.text) \cap { "rate limit", "too many requests", "429" } # {}

\* isinstance(exc, JSONDecodeError) or "Expecting value" in str(exc)
is_parse_error(error) ==
    \/ error.cls = "JSONDecodeError"
    \/ error.text \in { "Expecting value", "Expecting value: line 1 column 1 (char 0)" }

\* Texts are sequences of characters.
Whitespace == { " ", "\n" }

RECURSIVE lstrip(_)
lstrip(text) ==
    IF text # <<>> /\ Head(text) \in Whitespace THEN lstrip(Tail(text)) ELSE text

RECURSIVE rstrip(_)
rstrip(text) ==
    IF text # <<>> /\ text[Len(text)] \in Whitespace
    THEN rstrip(SubSeq(text, 1, Len(text) - 1))
    ELSE text

\* str.strip()
strip(text) == rstrip(lstrip(text))

\* What one completion call gives: a response without choices, a response
\* whose first choice has no content or has a text, or an exception.
NoChoices == [k |-> "no_choices", text |-> <<>>, error |-> NoApiError]
NoContent == [k |-> "no_content", text |-> <<>>, error |-> NoApiError]
Content(text) == [k |-> "content", text |-> text, error |-> NoApiError]
Raises(error) == [k |-> "raises", text |-> <<>>, error |-> error]

Completions ==
    { NoChoices, NoContent, Content(<<>>), Content(<<" ", "o", "k", "\n">>),
      Content(<<"o", " ", "k">>) }
    \cup { Raises(e) : e \in ApiErrors }

Returned(text) == [k |-> "text", text |-> text, error |-> NoApiError]
Raised(kind, error) == [k |-> kind, text |-> <<>>, error |-> error]
NoResult == [k |-> "", text |-> <<>>, error |-> NoApiError]

\* Mutant: a response without choices is indexed like any other, and
\* response.choices[0] raises IndexError.
attempt_outcome_indexing_choices(completion) ==
    CASE completion.k = "no_choices" ->
            [k |-> "raises", text |-> <<>>,
             error |-> ApiError("IndexError", 0, 0, "list index out of range")]
      [] completion.k = "no_content" -> [completion EXCEPT !.k = "returns"]
      [] completion.k = "content" ->
            [completion EXCEPT !.k = "returns", !.text = strip(completion.text)]
      [] OTHER -> completion

\* Mutant: a completion whose text is empty after stripping is raised as a
\* parse failure, to be tried again.
attempt_outcome_rejecting_empty(completion) ==
    CASE completion.k = "no_choices" -> [completion EXCEPT !.k = "returns", !.text = <<>>]
      [] completion.k \in { "no_content", "content" } ->
            IF strip(completion.text) = <<>>
            THEN [k |-> "raises", text |-> <<>>,
                  error |-> ApiError("ValueError", 0, 0, "Expecting value")]
            ELSE [completion EXCEPT !.k = "returns", !.text = strip(completion.text)]
      [] OTHER -> completion

\* The try block (lines 233-244): the text the attempt returns, or the
\* exception it raises.
attempt_outcome(completion) ==
    CASE completion.k = "no_choices" -> [completion EXCEPT !.k = "returns", !.text = <<>>]
      [] completion.k = "no_content" -> [completion EXCEPT !.k = "returns", !.text = <<>>]
      [] completion.k = "content" ->
            [completion EXCEPT !.k = "returns", !.text = strip(completion.text)]
      [] OTHER -> completion

\* Mutant: the rate-limit test comes after the retry test, so a rate-limit
\* error is retried like any other while attempts are left.
after_failure_retry_first(exc, attempt) ==
    IF attempt < AttemptBudget - 1 THEN "retry"
    ELSE IF is_rate_limit_error(exc) THEN "rate_limit"
    ELSE "give_up"

\* The except block (lines 245-258) for the exception of attempt number
\* `attempt` (from 0).
after_failure(exc, attempt) ==
    IF is_rate_limit_error(exc) THEN "rate_limit"
    ELSE IF attempt < AttemptBudget - 1 THEN "retry"
    ELSE "give_up"

\* Lines 259-265: the failure raised once the loop is left.
final_failure(last_error) ==
    IF is_parse_error(last_error)
    THEN Raised("bad_response", NoApiError)
    ELSE Raised("call_failed", last_error)

\* asyncio.sleep(1.5 * (attempt + 1)), in half seconds.
backoff_half_seconds(attempt) == 3 * (attempt + 1)

PromptInit ==
    /\ rp_pc = "calling"
    /\ rp_attempt = 0
    /\ rp_trace = <<>>
    /\ rp_sleeps = <<>>
    /\ rp_last_error = NoApiError
    /\ rp_result = NoResult

PromptIdle ==
    /\ rp_pc = "idle"
    /\ rp_attempt = 0
    /\ rp_trace = <<>>
    /\ rp_sleeps = <<>>
    /\ rp_last_error = NoApiError
    /\ rp_result = NoResult

\* One attempt whose completion comes back: lines 233-244.
RpAttemptReturns ==
    /\ rp_pc = "calling"
    /\ rp_attempt < AttemptBudget
    /\ \E completion \in Completions :
         /\ attempt_outcome(completion).k = "returns"
         /\ rp_trace' = Append(rp_trace, completion)
         /\ rp_result' = Returned(attempt_outcome(completion).text)
    /\ rp_pc' = "returned"
    /\ UNCHANGED <<rp_attempt, rp_sleeps, rp_last_error>>
    /\ UNCHANGED notPromptVars

\* One attempt that raises: lines 245-265.
RpAttemptRaises ==
    /\ rp_pc = "calling"
    /\ rp_attempt < AttemptBudget
    /\ \E completion \in Completions :
         /\ attempt_outcome(completion).k = "raises"
         /\ LET exc == attempt_outcome(completion).error
            IN  /\ rp_trace' = Append(rp_trace, completion)
                /\ rp_last_error' = exc
                /\ CASE after_failure(exc, rp_attempt) = "rate_limit" ->
                          /\ rp_pc' = "raised"
                          /\ rp_result' = Raised("rate_limit", NoApiError)
                          /\ UNCHANGED rp_sleeps
                     [] after_failure(exc, rp_attempt) = "retry" ->
                          /\ rp_pc' = "sleeping"
                          /\ rp_sleeps' = Append(rp_sleeps, backoff_half_seconds(rp_attempt))
                          /\ UNCHANGED rp_result
                     [] OTHER ->
                          /\ rp_pc' = "raised"
                          /\ rp_result' = final_failure(exc)
                          /\ UNCHANGED rp_sleeps
    /\ UNCHANGED rp_attempt
    /\ UNCHANGED notPromptVars

\* The sleep ends and the loop goes to its next attempt (line 257).
RpWake ==
    /\ rp_pc = "sleeping"
    /\ rp_attempt' = rp_attempt + 1
    /\ rp_pc' = "calling"
    /\ UNCHANGED <<rp_trace, rp_sleeps, rp_last_error, rp_result>>
    /\ UNCHANGED notPromptVars

PromptNext == RpAttemptReturns \/ RpAttemptRaises \/ RpWake

(***************************************************************************)
(* The multi-file-block parser parse_file_blocks (copyright_service.py).   *)
(***************************************************************************)
\* A string that is read as a path: whether white space surrounds it, the
\* number of its leading slashes, and its segments.
PathStr(ws, slashes, segs) == [ws |-> ws, slashes |-> slashes, segs |-> segs]
EmptyStr == PathStr(FALSE, 0, <<>>)

\* str.strip() of such a string.
str_strip(s) == [s EXCEPT !.ws = FALSE]

\* A line of text: a mark at its start and the rest of the line.  The
\* empty line, a line of spaces and a line of plain text have no mark.
Line(mark, body) == [mark |-> mark, body |-> body]
EmptyLine == Line("", EmptyStr)
SpaceLine == Line("", PathStr(TRUE, 0, <<>>))
TextLine == Line("", PathStr(FALSE, 0, <<"x">>))

\* The marks the pattern ^###\s*(?:FILE|文件)\s*[:：]\s* matches, ignoring case
\* ("###WENJIAN:" stands for the Chinese word and the full-width colon).
HeaderMarks == { "### FILE:", "###file :", "###WENJIAN:" }

\* pattern.match(line.strip()): the declared path, group(1).strip(), of a
\* line that matches; (.+) needs a character after the mark.
header_matches(line) ==
    /\ line.mark \in HeaderMarks
    /\ (line.body.slashes > 0 \/ line.body.segs # <<>>)

\* Mutant: the declared path is kept as written, white space included.
header_path_as_written(line) == line.body

header_path(line) == str_strip(line.body)

\* A string of several lines: the sequence of its lines, each with the
\* line boundary that ends it ("LF", "CR", "CRLF", "FF"), the last one
\* with "" for the end of the string.  The empty string is <<>> and a
\* string that ends with a line boundary has the empty line as its last.
Seg(line, end) == [line |-> line, end |-> end]

Str(lines) ==
    [i \in 1..Len(lines) |-> Seg(lines[i], IF i < Len(lines) THEN "LF" ELSE "")]

\* content.splitlines() (line 274): the lines without their boundaries,
\* whatever the boundary is; a boundary at the end of the string opens no
\* line.
splitlines(text) ==
    LET n == IF text # <<>> /\ text[Len(text)].line = EmptyLine
             THEN Len(text) - 1 ELSE Len(text)
    IN  [i \in 1..n |-> text[i].line]

\* "\n".join(buffer)
str_join(buffer) == IF buffer = <<EmptyLine>> THEN <<>> ELSE Str(buffer)

\* str.strip("\n"): the LF characters at both ends are removed, no other
\* line boundary is.  Of a CR LF at the end the LF goes and the CR stays:
\* the string then ends with the boundary CR.
RECURSIVE strip_newlines(_)
strip_newlines(text) ==
    IF text = <<>> THEN <<>>
    ELSE IF text = <<Seg(EmptyLine, "")>> THEN <<>>
    ELSE IF Head(text) = Seg(EmptyLine, "LF") THEN strip_newlines(Tail(text))
    ELSE IF /\ Len(text) > 1
            /\ text[Len(text)] = Seg(EmptyLine, "")
            /\ text[Len(text) - 1].end = "LF"
         THEN strip_newlines(SubSeq(text, 1, Len(text) - 2)
                               \o <<Seg(text[Len(text) - 1].line, "")>>)
    ELSE IF /\ Len(text) > 1
            /\ text[Len(text)] = Seg(EmptyLine, "")
            /\ text[Len(text) - 1].end = "CRLF"
         THEN SubSeq(text, 1, Len(text) - 2)
                  \o <<Seg(text[Len(text) - 1].line, "CR"), Seg(EmptyLine, "")>>
    ELSE text

\* Mutant: the block is stored with its surrounding empty lines.
join_buffer_untrimmed(buffer) == str_join(buffer)

\* "\n".join(buffer).strip("\n") (lines 278, 284).
join_buffer(buffer) == strip_newlines(str_join(buffer))

\* An entry of a dict of files, and files[key] = value on a dict kept as
\* the sequence of its entries in insertion order.
FileEntry(path, content) == [path |-> path, content |-> content]

dict_set(files, key, value) ==
    IF \E i \in 1..Len(files) : files[i].path = key
    THEN [i \in 1..Len(files) |->
            IF files[i].path = key THEN FileEntry(key, value) ELSE files[i]]
    ELSE Append(files, FileEntry(key, value))

NoPath == PathStr(FALSE, 0, <<"">>)

\* `if current_path: files[current_path] = ...` (lines 277-278, 283-284).
flush_block(files, current_path, buffer) ==
    IF current_path # NoPath
    THEN dict_set(files, current_path, join_buffer(buffer))
    ELSE files

\* The paths and the lines the parser is given: plain, with white space
\* around, with a '..' segment, absolute, empty, and one whose name holds
\* a line feed.
BrokenPath == PathStr(FALSE, 0, <<"a\nb">>)

ParsePaths ==
    { PathStr(FALSE, 0, <<"a">>), PathStr(TRUE, 0, <<"a">>), PathStr(FALSE, 0, <<"b">>),
      PathStr(FALSE, 0, <<"..", "a">>), PathStr(FALSE, 1, <<"a">>),
      PathStr(FALSE, 0, <<"a", "..", "b">>), EmptyStr, BrokenPath }

ContentLines ==
    { EmptyLine, SpaceLine, TextLine, Line("### FILE:", PathStr(FALSE, 0, <<"c">>)),
      Line("## FILE:", PathStr(FALSE, 0, <<"c">>)), Line("### FILE:", EmptyStr) }

\* The lines of a content with the boundary that ends them: any line ended
\* by LF, and text ended by one of the other boundaries splitlines knows.
ContentSegs ==
    { Seg(l, "LF") : l \in ContentLines }
      \cup { Seg(TextLine, end) : end \in { "CR", "CRLF", "FF" } }
      \cup { Seg(EmptyLine, "CR") }

\* The contents: strings of up to MaxLines lines.
Contents ==
    ({ <<>> } \cup
     { front \o <<Seg(l, "")>> :
         front \in SeqsUpTo(ContentSegs, MaxLines - 1), l \in ContentLines })
      \ { <<Seg(EmptyLine, "")>> }

\* The entries after the first of a mapping.
LaterEntries ==
    { FileEntry(p, c) :
        p \in { PathStr(FALSE, 0, <<"b">>), PathStr(FALSE, 0, <<"..", "a">>) },
        c \in { <<>>, Str(<<TextLine, EmptyLine>>) } }

DistinctPaths(entries) ==
    \A i, j \in 1..Len(entries) : entries[i].path = entries[j].path => i = j

\* The mappings {path: content}: a first entry with any content, and up to
\* MaxBlocks - 1 entries more.
FileMaps ==
    { <<>> } \cup
    { m \in { <<FileEntry(p, c)>> \o rest :
                p \in ParsePaths, c \in Contents,
                rest \in SeqsUpTo(LaterEntries, MaxBlocks - 1) } : DistinctPaths(m) }

\* text + "\n": a line feed after a carriage return makes one boundary of
\* the two.
add_newline(text) ==
    IF text = <<>> THEN Str(<<EmptyLine, EmptyLine>>)
    ELSE IF /\ Len(text) > 1
            /\ text[Len(text)].line = EmptyLine
            /\ text[Len(text) - 1].end = "CR"
         THEN [text EXCEPT ![Len(text) - 1].end = "CRLF"]
    ELSE SubSeq(text, 1, Len(text) - 1)
           \o <<Seg(text[Len(text)].line, "LF"), Seg(EmptyLine, "")>>

\* text + more, for a text that is empty or ends with a line boundary.
add_text(text, more) ==
    IF more = <<>> THEN text
    ELSE IF text = <<>> THEN more
    ELSE SubSeq(text, 1, Len(text) - 1) \o more

\* "### FILE: " + path, in the spelling `mark` of the declaration.
header_text(path, mark) ==
    IF path = BrokenPath
    THEN Str(<<Line(mark, PathStr(FALSE, 0, <<"a">>)), Line("", PathStr(FALSE, 0, <<"b">>))>>)
    ELSE <<Seg(Line(mark, path), "")>>

\* The text of a mapping: the entries joined by line feeds, each the line
\* "### FILE: <path>" (in one of the spellings the pattern accepts), a
\* line feed and the content.
RECURSIVE serialize_onto(_, _, _)
serialize_onto(text, entries, mark) ==
    IF entries = <<>> THEN text
    ELSE serialize_onto(
             add_text(add_newline(add_text(IF text = <<>> THEN <<>> ELSE add_newline(text),
                                           header_text(Head(entries).path, mark))),
                      Head(entries).content),
             Tail(entries), mark)

serialize(entries, mark) == serialize_onto(<<>>, entries, mark)

ParseInit ==
    /\ pf_pc = "parsing"
    /\ pf_map \in FileMaps
    /\ \E mark \in HeaderMarks : pf_text = serialize(pf_map, mark)
    /\ pf_lines = splitlines(pf_text)
    /\ pf_current = NoPath
    /\ pf_buffer = <<>>
    /\ pf_files = <<>>

ParseIdle ==
    /\ pf_pc = "idle"
    /\ pf_map = <<>>
    /\ pf_text = <<>>
    /\ pf_lines = <<>>
    /\ pf_current = NoPath
    /\ pf_buffer = <<>>
    /\ pf_files = <<>>

\* Lines 275-280: the next line declares a file.
PfHeader ==
    /\ pf_pc = "parsing"
    /\ pf_lines # <<>>
    /\ header_matches(Head(pf_lines))
    /\ pf_files' = flush_block(pf_files, pf_current, pf_buffer)
    /\ pf_current' = header_path(Head(pf_lines))
    /\ pf_buffer' = <<>>
    /\ pf_lines' = Tail(pf_lines)
    /\ UNCHANGED <<pf_pc, pf_map, pf_text>>
    /\ UNCHANGED notParseVars

\* Lines 281-282: any other line goes to the buffer.
PfText ==
    /\ pf_pc = "parsing"
    /\ pf_lines # <<>>
    /\ ~header_matches(Head(pf_lines))
    /\ pf_buffer' = Append(pf_buffer, Head(pf_lines))
    /\ pf_lines' = Tail(pf_lines)
    /\ UNCHANGED <<pf_pc, pf_map, pf_text, pf_current, pf_files>>
    /\ UNCHANGED notParseVars

\* Lines 283-285: the last block is stored and the dict returned.
PfReturn ==
    /\ pf_pc = "parsing"
    /\ pf_lines = <<>>
    /\ pf_files' = flush_block(pf_files, pf_current, pf_buffer)
    /\ pf_pc' = "returned"
    /\ UNCHANGED <<pf_map, pf_text, pf_lines, pf_current, pf_buffer>>
    /\ UNCHANGED notParseVars

ParseNext == PfHeader \/ PfText \/ PfReturn

(***************************************************************************)
(* The workspace writer safe_write_files (copyright_service.py).           *)
(***************************************************************************)
\* str.lstrip("/")
lstrip_slashes(s) == [s EXCEPT !.slashes = 0]

\* Path(...).parts of a relative path: the segments without the "." ones.
path_parts(s) == SelectSeq(s.segs, LAMBDA seg : seg # ".")

\* Path(...).is_absolute() on a POSIX path.
is_absolute(s) == s.slashes > 0

\* Line 291: Path(raw_path.strip().lstrip("/")).
relative_path(raw_path) == lstrip_slashes(str_strip(raw_path))

\* Mutant: only absolute paths are skipped.
write_skips_absolute_only(raw_path) == is_absolute(relative_path(raw_path))

\* Line 292: the entry is skipped.
write_skips(raw_path) ==
    \/ is_absolute(relative_path(raw_path))
    \/ \E i \in 1..Len(path_parts(relative_path(raw_path))) :
         path_parts(relative_path(raw_path))[i] = ".."

IsProperPrefix(p, q) == Len(p) < Len(q) /\ SubSeq(q, 1, Len(p)) = p

\* Lines 295-296 on a root directory that holds the files `fs`: the OSError
\* of mkdir or write_text, or "" when the file is written.
write_error(fs, parts) ==
    IF parts = <<>> THEN "IsADirectoryError"
    ELSE IF SubSeq(parts, 1, Len(parts) - 1) \in fs THEN "FileExistsError"
    ELSE IF \E f \in fs : IsProperPrefix(f, parts) THEN "NotADirectoryError"
    ELSE IF \E f \in fs : IsProperPrefix(parts, f) THEN "IsADirectoryError"
    ELSE ""

WriteSegments == { "a", "b", "..", "." }

\* The keys of file_map: the first any path of up to MaxSegs segments, with
\* or without white space around it and a leading slash.
WriteKeys ==
    { PathStr(ws, slashes, segs) :
        ws \in BOOLEAN, slashes \in 0..1, segs \in SeqsUpTo(WriteSegments, MaxSegs) }

LaterKeys ==
    { PathStr(FALSE, 0, <<"a">>), PathStr(FALSE, 0, <<"a", "b">>),
      PathStr(FALSE, 0, <<"..", "a">>), PathStr(FALSE, 1, <<"b">>) }

WriteMaps ==
    { <<>> } \cup
    { m \in { <<FileEntry(k, Str(<<TextLine>>))>> \o rest :
                k \in WriteKeys,
                rest \in SeqsUpTo({ FileEntry(l, Str(<<TextLine>>)) : l \in LaterKeys },
                                  MaxEntries - 1) } : DistinctPaths(m) }

\* What became of one entry.
Outcome(key, result, target) == [key |-> key, result |-> result, target |-> target]

WriteInit ==
    /\ sw_pc = "writing"
    /\ sw_map \in WriteMaps
    /\ sw_todo = sw_map
    /\ sw_log = <<>>
    /\ sw_fs = {}
    /\ sw_written = <<>>
    /\ sw_raised = ""

WriteIdle ==
    /\ sw_pc = "idle"
    /\ sw_map = <<>>
    /\ sw_todo = <<>>
    /\ sw_log = <<>>
    /\ sw_fs = {}
    /\ sw_written = <<>>
    /\ sw_raised = ""

\* Lines 290-293: the entry is skipped.
SwSkip ==
    /\ sw_pc = "writing"
    /\ sw_todo # <<>>
    /\ write_skips(Head(sw_todo).path)
    /\ sw_log' = Append(sw_log, Outcome(Head(sw_todo).path, "skipped", <<>>))
    /\ sw_todo' = Tail(sw_todo)
    /\ UNCHANGED <<sw_pc, sw_map, sw_fs, sw_written, sw_raised>>
    /\ UNCHANGED notWriteVars

\* Lines 294-297: the file is written under root_dir.
SwWrite ==
    /\ sw_pc = "writing"
    /\ sw_todo # <<>>
    /\ ~write_skips(Head(sw_todo).path)
    /\ LET parts == path_parts(relative_path(Head(sw_todo).path))
       IN  /\ write_error(sw_fs, parts) = ""
           /\ sw_fs' = sw_fs \cup { parts }
           /\ sw_written' = Append(sw_written, parts)
           /\ sw_log' = Append(sw_log, Outcome(Head(sw_todo).path, "written", parts))
    /\ sw_todo' = Tail(sw_todo)
    /\ UNCHANGED <<sw_pc, sw_map, sw_raised>>
    /\ UNCHANGED notWriteVars

\* Lines 295-296: mkdir or write_text raises and the call ends.
SwRaise ==
    /\ sw_pc = "writing"
    /\ sw_todo # <<>>
    /\ ~write_skips(Head(sw_todo).path)
    /\ LET parts == path_parts(relative_path(Head(sw_todo).path))
       IN  /\ write_error(sw_fs, parts) # ""
           /\ sw_raised' = write_error(sw_fs, parts)
           /\ sw_log' = Append(sw_log, Outcome(Head(sw_todo).path, "raised", parts))
    /\ sw_pc' = "raised"
    /\ UNCHANGED <<sw_map, sw_todo, sw_fs, sw_written>>
    /\ UNCHANGED notWriteVars

\* Line 298: the list of written paths is returned.
SwReturn ==
    /\ sw_pc = "writing"
    /\ sw_todo = <<>>
    /\ sw_pc' = "returned"
    /\ UNCHANGED <<sw_map, sw_todo, sw_log, sw_fs, sw_written, sw_raised>>
    /\ UNCHANGED notWriteVars

WriteNext == SwSkip \/ SwWrite \/ SwRaise \/ SwReturn

(***************************************************************************)
(* A copyright job and its run driver run_copyright_generation             *)
(* (copyright_service.py), from the job's creation by generate_project     *)
(* (routers/copyright_api.py).                                             *)
(***************************************************************************)
\* The fields of a CopyrightJob that the run driver sets.
Job(status, stage, message, progress, error, output_zip_path) ==
    [status |-> status, stage |-> stage, message |-> message, progress |-> progress,
     error |-> error, output_zip_path |-> output_zip_path]

\* The job generate_project creates (copyright_api.py lines 199-205).
QueuedJob == Job("queued", "preparing", "queued", 0, "", "")

\* A keyword argument of update_job_state left at None.
Keep == "-"
KeepProgress == -1

\* update_job_state: the fields given are set, the others kept.
update_job_state(job, status, stage, message, progress, error, output_zip_path) ==
    Job(IF status # Keep THEN status ELSE job.status,
        IF stage # Keep THEN stage ELSE job.stage,
        IF message # Keep THEN message ELSE job.message,
        IF progress # KeepProgress THEN progress ELSE job.progress,
        IF error # Keep THEN error ELSE job.error,
        IF output_zip_path # Keep THEN output_zip_path ELSE job.output_zip_path)

\* A stage update of the run and the work that follows it: the number of
\* calls of run_prompt the work makes.  The message stands for the Chinese
\* text of the update.
Stage(status, stage, progress, work, llm_calls) ==
    [status |-> status, stage |-> stage, message |-> "before " \o work,
     progress |-> progress, work |-> work, llm_calls |-> llm_calls]

\* Mutant: the merge step runs under the tag of the stage before it.
StagesWithUnannouncedMerge ==
    << Stage("running", "preparing", 5, "prepare", 0),
       Stage(Keep, "generating", 15, "framework", 2),
       Stage(Keep, "generating", 30, "pages", 2),
       Stage(Keep, "generating", 45, "ui", 1),
       Stage(Keep, "generating", 55, "frontend", 1),
       Stage(Keep, "generating", 65, "database", 1),
       Stage(Keep, "generating", 75, "backend", 1),
       Stage(Keep, "generating", 82, "manual", 1),
       Stage(Keep, "generating", 88, "form", 1),
       Stage(Keep, "generating", 92, "merge", 0),
       Stage(Keep, "saving", 96, "zip", 0),
       Stage("completed", "completed", 100, "", 0) >>

\* Mutant: the page-list update reports less progress than the one before it.
StagesWithDip ==
    << Stage("running", "preparing", 5, "prepare", 0),
       Stage(Keep, "generating", 15, "framework", 2),
       Stage(Keep, "generating", 10, "pages", 2),
       Stage(Keep, "generating", 45, "ui", 1),
       Stage(Keep, "generating", 55, "frontend", 1),
       Stage(Keep, "generating", 65, "database", 1),
       Stage(Keep, "generating", 75, "backend", 1),
       Stage(Keep, "generating", 82, "manual", 1),
       Stage(Keep, "generating", 88, "form", 1),
       Stage(Keep, "rendering", 92, "merge", 0),
       Stage(Keep, "saving", 96, "zip", 0),
       Stage("completed", "completed", 100, "", 0) >>

\* The updates of lines 538-853 in their order.
Stages ==
    << Stage("running", "preparing", 5, "prepare", 0),
       Stage(Keep, "generating", 15, "framework", 2),
       Stage(Keep, "generating", 30, "pages", 2),
       Stage(Keep, "generating", 45, "ui", 1),
       Stage(Keep, "generating", 55, "frontend", 1),
       Stage(Keep, "generating", 65, "database", 1),
       Stage(Keep, "generating", 75, "backend", 1),
       Stage(Keep, "generating", 82, "manual", 1),
       Stage(Keep, "generating", 88, "form", 1),
       Stage(Keep, "rendering", 92, "merge", 0),
       Stage(Keep, "saving", 96, "zip", 0),
       Stage("completed", "completed", 100, "", 0) >>

stage_update(job, step) ==
    update_job_state(job, Stages[step].status, Stages[step].stage, Stages[step].message,
                     Stages[step].progress, Keep,
                     IF Stages[step].status = "completed" THEN "zip" ELSE Keep)

\* Mutants of the update of the except block.
failure_update_requeues(job, message, error) ==
    update_job_state(job, "queued", "error", message, 0, error, Keep)

failure_update_keeps_status(job, message, error) ==
    update_job_state(job, Keep, "error", message, 0, error, Keep)

failure_update_keeps_stage(job, message, error) ==
    update_job_state(job, "failed", Keep, message, 0, error, Keep)

failure_update_keeps_progress(job, message, error) ==
    update_job_state(job, "failed", "error", message, KeepProgress, error, Keep)

\* The update of the except block (lines 865-873) and of the two
\* configuration checks (lines 515-535).
failure_update(job, message, error) ==
    update_job_state(job, "failed", "error", message, 0, error, Keep)

\* What the run reads: which of the job, project and user records is
\* missing, the user's AI key and base URL, the project's requirements text.
RunInput(missing, ai_api_key, ai_base_url, requirements_text) ==
    [missing |-> missing, ai_api_key |-> ai_api_key, ai_base_url |-> ai_base_url,
     requirements_text |-> requirements_text]

RunInputs ==
    { RunInput(missing, k, b, r) :
        missing \in { "", "job", "project", "user" },
        k \in { "none", "empty", "set" },
        b \in { "none", "empty", "set" },
        r \in { "none", "empty", "blank", "text" } }

\* `not s` of an optional string.
Falsy(s) == s \in { "none", "empty" }

\* Mutant: only a missing or empty requirements text is refused.
config_rejection_allowing_blank(in) ==
    IF Falsy(in.ai_api_key) \/ Falsy(in.ai_base_url) THEN "no_ai"
    ELSE IF Falsy(in.requirements_text) THEN "no_requirements"
    ELSE ""

\* Lines 514-536: the error of a configuration the run refuses, or "".
config_rejection(in) ==
    IF Falsy(in.ai_api_key) \/ Falsy(in.ai_base_url) THEN "no_ai"
    ELSE IF Falsy(in.requirements_text) \/ in.requirements_text = "blank"
         THEN "no_requirements"
    ELSE ""

\* Lines 520-521 and 532-533: the message and the error of a refusal.
rejection_message(rejection) ==
    IF rejection = "no_ai" THEN "configure AI first" ELSE "requirements are empty"

rejection_error(rejection) ==
    IF rejection = "no_ai" THEN "AI not configured" ELSE "requirements are empty"

\* The text of lines 248-251 and 861-864 (the same Chinese sentence, which
\* contains the words "Rate Limit").
RateLimitMessage == "Rate Limit triggered; retry later or change provider"

\* Lines 859-864: the error recorded for an exception.
error_message(exc) ==
    IF is_rate_limit_error(exc) THEN RateLimitMessage ELSE exc.text

\* What the attempts of one run_prompt call may meet, one entry per attempt.
CallCompletions ==
    { Content(<<"o", " ", "k">>),
      Raises(ApiError("RateLimitError", 0, 0, "quota exceeded")),
      Raises(ApiError("APIConnectionError", 0, 0, "Connection error.")),
      Raises(ApiError("JSONDecodeError", 0, 0, "Expecting value: line 1 column 1 (char 0)")) }

CallTraces == [1..AttemptBudget -> CallCompletions]

\* run_prompt from attempt number `attempt` on, over the completions its
\* attempts meet: its result and the number of requests it has issued.
RECURSIVE run_prompt(_, _)
run_prompt(trace, attempt) ==
    LET out == attempt_outcome(trace[attempt + 1])
    IN  IF out.k = "returns"
        THEN [result |-> Returned(out.text), requests |-> attempt + 1]
        ELSE CASE after_failure(out.error, attempt) = "rate_limit" ->
                    [result |-> Raised("rate_limit", NoApiError), requests |-> attempt + 1]
               [] after_failure(out.error, attempt) = "retry" ->
                    run_prompt(trace, attempt + 1)
               [] OTHER ->
                    [result |-> final_failure(out.error), requests |-> attempt + 1]

\* Mutant: every failure of run_prompt is raised as a failed call.
raised_error_as_failed_call(result) ==
    ApiError("RuntimeError", 0, 0, "AI call failed: " \o result.error.text)

\* The RuntimeError run_prompt raises (lines 248-251, 262-265).
raised_error(result) ==
    CASE result.k = "rate_limit" -> ApiError("RuntimeError", 0, 0, RateLimitMessage)
      [] result.k = "bad_response" -> ApiError("RuntimeError", 0, 0, "AI response abnormal")
      [] OTHER -> ApiError("RuntimeError", 0, 0, "AI call failed: " \o result.error.text)

\* An exception of the file system or of starting the subprocess.
OSError == ApiError("OSError", 0, 0, "[Errno 28] No space left on device")

\* The file-system errors of a run: str() of an OSError ends with the path
\* of the file, which holds the id of the project; is_rate_limit_error
\* reads "429" there as it does in any text.
OSErrors ==
    { OSError,
      ApiError("OSError", 0, 0,
               "[Errno 28] No space left on device: 'copyright_projects/429/config.json'") }

\* The merge subprocess as it ended.
Diag(returncode, stderr, stdout) ==
    [returncode |-> returncode, stderr |-> stderr, stdout |-> stdout]
NoDiag == Diag(0, "", "")

DiagnosticTexts == { "", "SyntaxError: invalid syntax", "HTTP 429" }

\* Line 833: RuntimeError(result.stderr or result.stdout or "...").
merge_error(diag) ==
    ApiError("RuntimeError", 0, 0,
             IF diag.stderr # "" THEN diag.stderr
             ELSE IF diag.stdout # "" THEN diag.stdout
             ELSE "source merge failed")

\* The files the work of a stage writes in the project directory.
WritesFiles(work) == work \notin { "", "zip" }

\* Whether the work of a stage without an LLM call writes a file in the
\* project directory (1) or none (0): the preparation writes config.json,
\* the archive is written outside the project directory, and what the
\* merge script writes is its own affair (scripts/generators/
\* merge_all_simple.py is copied from the skill folder and is not part of
\* the service).
WrittenByWork(stage) ==
    IF stage.llm_calls # 0 \/ ~WritesFiles(stage.work) THEN { 0 }
    ELSE IF stage.work = "merge" THEN { 0, 1 }
    ELSE { 1 }

JobInit ==
    /\ cj_pc = "queued"
    /\ cj_in \in RunInputs
    /\ cj_job = QueuedJob
    /\ cj_updates = <<QueuedJob>>
    /\ cj_step = 0
    /\ cj_llm_calls = 0
    /\ cj_workspace = FALSE
    /\ cj_files = 0
    /\ cj_raised = ""
    /\ cj_requests = 0
    /\ cj_diag = NoDiag
    /\ cj_call = 0
    /\ cj_attempt = 0

JobIdle ==
    /\ cj_pc = "idle"
    /\ cj_in = RunInput("", "none", "none", "none")
    /\ cj_job = QueuedJob
    /\ cj_updates = <<>>
    /\ cj_step = 0
    /\ cj_llm_calls = 0
    /\ cj_workspace = FALSE
    /\ cj_files = 0
    /\ cj_raised = ""
    /\ cj_requests = 0
    /\ cj_diag = NoDiag
    /\ cj_call = 0
    /\ cj_attempt = 0

\* Lines 505-512: a record is missing and the run returns.
CjMissingRecord ==
    /\ cj_pc = "queued"
    /\ cj_in.missing # ""
    /\ cj_pc' = "ended"
    /\ UNCHANGED <<cj_in, cj_job, cj_updates, cj_step, cj_llm_calls, cj_workspace,
                   cj_files, cj_raised, cj_requests, cj_diag, cj_call, cj_attempt>>
    /\ UNCHANGED notJobVars

\* Lines 514-536: the configuration is refused.
CjRefuse ==
    /\ cj_pc = "queued"
    /\ cj_in.missing = ""
    /\ config_rejection(cj_in) # ""
    /\ cj_job' = failure_update(cj_job, rejection_message(config_rejection(cj_in)),
                                rejection_error(config_rejection(cj_in)))
    /\ cj_updates' = Append(cj_updates, cj_job')
    /\ cj_pc' = "ended"
    /\ UNCHANGED <<cj_in, cj_step, cj_llm_calls, cj_workspace, cj_files, cj_raised,
                   cj_requests, cj_diag, cj_call, cj_attempt>>
    /\ UNCHANGED notJobVars

\* Lines 538-545: the job becomes Running.
CjStart ==
    /\ cj_pc = "queued"
    /\ cj_in.missing = ""
    /\ config_rejection(cj_in) = ""
    /\ cj_step' = 1
    /\ cj_job' = stage_update(cj_job, 1)
    /\ cj_updates' = Append(cj_updates, cj_job')
    /\ cj_pc' = "working"
    /\ UNCHANGED <<cj_in, cj_llm_calls, cj_workspace, cj_files, cj_raised, cj_requests,
                   cj_diag, cj_call, cj_attempt>>
    /\ UNCHANGED notJobVars

\* The stage whose work has come to its end: every run_prompt call of the
\* stage has returned.
calls_done == cj_call = Stages[cj_step].llm_calls

\* The work of the current stage comes to its end without an await (the
\* workspace is prepared, the merge subprocess ends with code 0, the archive
\* is written; in a stage of LLM calls nothing is left to do) and the next
\* update is committed.
CjWorkDone ==
    /\ cj_pc = "working"
    /\ cj_step < Len(Stages)
    /\ calls_done
    /\ cj_workspace' = TRUE
    /\ cj_files' \in { cj_files + n : n \in WrittenByWork(Stages[cj_step]) }
    /\ cj_step' = cj_step + 1
    /\ cj_job' = stage_update(cj_job, cj_step + 1)
    /\ cj_updates' = Append(cj_updates, cj_job')
    /\ cj_call' = 0
    /\ cj_attempt' = 0
    /\ cj_pc' = IF cj_step + 1 = Len(Stages) THEN "ended" ELSE "working"
    /\ UNCHANGED <<cj_in, cj_llm_calls, cj_raised, cj_requests, cj_diag>>
    /\ UNCHANGED notJobVars

\* The next run_prompt call of the stage begins: its first request is sent
\* and the run is suspended at it (line 233).
CjRequest ==
    /\ cj_pc = "working"
    /\ cj_step < Len(Stages)
    /\ ~calls_done
    /\ cj_call' = cj_call + 1
    /\ cj_attempt' = 0
    /\ cj_llm_calls' = cj_llm_calls + 1
    /\ cj_requests' = cj_requests + 1
    /\ cj_pc' = "request"
    /\ UNCHANGED <<cj_in, cj_job, cj_updates, cj_step, cj_workspace, cj_files, cj_raised,
                   cj_diag>>
    /\ UNCHANGED notJobVars

\* Whether the stretch after call number `call` of a stage writes a file
\* (1) or none (0).  A document is written whatever the answer is.  The
\* source files are those of the answer that safe_write_files does not
\* skip, or those of the fallback: the frontend stage writes none when
\* every declared path is skipped and the page list is empty, the database
\* and backend stages when every declared path is skipped.
WrittenAfterCall(work, call) ==
    IF call # 1 THEN { 0 }
    ELSE IF work \in { "frontend", "database", "backend" } THEN { 0, 1 }
    ELSE { 1 }

\* The request is answered and run_prompt returns (lines 233-244); after
\* the first call of a stage the run writes what the stage generates (the
\* document of lines 620, 644, 673, 795, 816, the source files of lines
\* 701-708, 734-738, 764-768); the second call of a stage is the
\* extraction of lines 315 and 339, which writes nothing.
CjAttemptReturns ==
    /\ cj_pc = "request"
    /\ \E completion \in CallCompletions : attempt_outcome(completion).k = "returns"
    /\ cj_files' \in { cj_files + n : n \in WrittenAfterCall(Stages[cj_step].work, cj_call) }
    /\ cj_pc' = "working"
    /\ UNCHANGED <<cj_in, cj_job, cj_updates, cj_step, cj_llm_calls, cj_workspace,
                   cj_raised, cj_requests, cj_diag, cj_call, cj_attempt>>
    /\ UNCHANGED notJobVars

\* The except block (lines 855-873) for exception `exc` of kind `kind`.
job_failed(kind, exc) ==
    /\ cj_raised' = kind
    /\ cj_job' = failure_update(cj_job, "generation failed: " \o error_message(exc),
                                error_message(exc))
    /\ cj_updates' = Append(cj_updates, cj_job')
    /\ cj_pc' = "ended"

\* The request is answered, and writing what the stage generates raises
\* OSError, before the first file is made or after it.
CjWriteRaises ==
    /\ cj_pc = "request"
    /\ cj_call = 1
    /\ \E completion \in CallCompletions : attempt_outcome(completion).k = "returns"
    /\ cj_files' \in { cj_files, cj_files + 1 }
    /\ \E exc \in OSErrors : job_failed("OSError", exc)
    /\ UNCHANGED <<cj_in, cj_step, cj_llm_calls, cj_workspace, cj_requests, cj_diag,
                   cj_call, cj_attempt>>
    /\ UNCHANGED notJobVars

\* The request raises (lines 245-265): a rate-limit error and the failure
\* of the last attempt leave run_prompt as RuntimeError and the except
\* block marks the job failed; any other failure is followed by the
\* back-off sleep of line 258.
CjAttemptRaises ==
    /\ cj_pc = "request"
    /\ \E completion \in CallCompletions :
         /\ attempt_outcome(completion).k = "raises"
         /\ LET exc == attempt_outcome(completion).error
            IN  CASE after_failure(exc, cj_attempt) = "rate_limit" ->
                       job_failed("rate_limit", raised_error(Raised("rate_limit", NoApiError)))
                  [] after_failure(exc, cj_attempt) = "retry" ->
                       /\ cj_pc' = "backoff"
                       /\ UNCHANGED <<cj_job, cj_updates, cj_raised>>
                  [] OTHER ->
                       job_failed(final_failure(exc).k, raised_error(final_failure(exc)))
    /\ UNCHANGED <<cj_in, cj_step, cj_llm_calls, cj_workspace, cj_files, cj_requests,
                   cj_diag, cj_call, cj_attempt>>
    /\ UNCHANGED notJobVars

\* The back-off sleep ends and the next attempt sends its request (lines
\* 258, 233).
CjBackoffEnds ==
    /\ cj_pc = "backoff"
    /\ cj_attempt' = cj_attempt + 1
    /\ cj_requests' = cj_requests + 1
    /\ cj_pc' = "request"
    /\ UNCHANGED <<cj_in, cj_job, cj_updates, cj_step, cj_llm_calls, cj_workspace,
                   cj_files, cj_raised, cj_diag, cj_call>>
    /\ UNCHANGED notJobVars

\* What an OSError in the work of the stage leaves behind: whether the
\* project directory exists and whether the stage has written a file.
\* The preparation (lines 547-572) may fail making the project directory
\* (line 123), making a folder in it (lines 124-127), or after files were
\* copied or written (lines 129-139, 143-174, 177-220); the other stages
\* fail before they write (reading the prompt template, starting the
\* subprocess, making the archive).
LeftByOSError(work) ==
    IF work = "prepare"
    THEN { <<cj_workspace, cj_files>>, <<TRUE, cj_files>>, <<TRUE, cj_files + 1>> }
    ELSE { <<cj_workspace, cj_files>> }

\* The file system fails in the work of the current stage before its first
\* await.
CjWorkRaise ==
    /\ cj_pc = "working"
    /\ cj_step < Len(Stages)
    /\ cj_call = 0
    /\ \E left \in LeftByOSError(Stages[cj_step].work) :
         /\ cj_workspace' = left[1]
         /\ cj_files' = left[2]
    /\ \E exc \in OSErrors : job_failed("OSError", exc)
    /\ UNCHANGED <<cj_in, cj_step, cj_llm_calls, cj_requests, cj_diag, cj_call, cj_attempt>>
    /\ UNCHANGED notJobVars

\* Lines 826-833: the merge subprocess ends with a non-zero code.
CjMergeFails ==
    /\ cj_pc = "working"
    /\ cj_step < Len(Stages)
    /\ Stages[cj_step].work = "merge"
    /\ \E stderr, stdout \in DiagnosticTexts :
         /\ cj_diag' = Diag(1, stderr, stdout)
         /\ job_failed("merge_failed", merge_error(Diag(1, stderr, stdout)))
    /\ cj_files' \in { cj_files + n : n \in WrittenByWork(Stages[cj_step]) }
    /\ UNCHANGED <<cj_in, cj_step, cj_llm_calls, cj_workspace, cj_requests,
                   cj_call, cj_attempt>>
    /\ UNCHANGED notJobVars

\* The task is cancelled while the run is suspended at a request or at the
\* back-off sleep of a run_prompt call: asyncio.CancelledError is a
\* BaseException, so the except blocks of lines 245 and 855 are passed
\* over and only the finally block runs.
CjCancelled ==
    /\ cj_pc \in { "request", "backoff" }
    /\ cj_raised' = "CancelledError"
    /\ cj_pc' = "ended"
    /\ UNCHANGED <<cj_in, cj_job, cj_updates, cj_step, cj_llm_calls, cj_workspace,
                   cj_files, cj_requests, cj_diag, cj_call, cj_attempt>>
    /\ UNCHANGED notJobVars

\* The task is cancelled before its first step (asyncio.create_task at
\* copyright_api.py only schedules the coroutine): the body of
\* run_copyright_generation never runs, neither its except nor its finally
\* block, and the job stays as it was queued.
CjCancelledBeforeStart ==
    /\ cj_pc = "queued"
    /\ cj_raised' = "CancelledError"
    /\ cj_pc' = "never_started"
    /\ UNCHANGED <<cj_in, cj_job, cj_updates, cj_step, cj_llm_calls, cj_workspace,
                   cj_files, cj_requests, cj_diag, cj_call, cj_attempt>>
    /\ UNCHANGED notJobVars

\* One action per stretch of run_copyright_generation between two points
\* where it is suspended (the awaits of run_prompt) or commits the job.
JobNext ==
    \/ CjMissingRecord \/ CjRefuse \/ CjStart \/ CjWorkDone
    \/ CjRequest \/ CjAttemptReturns \/ CjWriteRaises \/ CjAttemptRaises \/ CjBackoffEnds
    \/ CjWorkRaise \/ CjMergeFails \/ CjCancelled \/ CjCancelledBeforeStart

(***************************************************************************)
(* The latest-job long poll get_latest_job (routers/copyright_api.py),     *)
(* for a project that has a job when the request arrives.  Times are       *)
(* whole numbers; has_updated_at is FALSE for an updated_at of None; aware  *)
(* tells whether the datetimes of the job carry a time zone.               *)
(***************************************************************************)
\* wait_seconds = max(0, min(wait, 25))
PollCap == 25

JobRow(status, has_updated_at, updated_at, aware) ==
    [status |-> status, has_updated_at |-> has_updated_at, updated_at |-> updated_at,
     aware |-> aware]

JobStatuses == { "queued", "running", "completed", "failed" }

JobRows ==
    { JobRow(status, has, t, aware) :
        status \in JobStatuses, has \in BOOLEAN, t \in 0..MaxTime, aware \in BOOLEAN }
      \ { JobRow(status, FALSE, t, aware) :
            status \in JobStatuses, t \in 1..MaxTime, aware \in BOOLEAN }

\* The `since` query parameter: absent, empty, not an ISO time, an ISO time
\* without offset ("naive") or an ISO time with offset ("aware").
Since(kind, t) == [kind |-> kind, t |-> t]

SinceValues ==
    { Since("none", 0), Since("empty", 0), Since("unparseable", 0) }
      \cup { Since(kind, t) : kind \in { "naive", "aware" }, t \in 0..MaxTime }

\* job.updated_at > since_time raises TypeError when one datetime carries a
\* time zone and the other does not.
comparison_raises(job, since) ==
    job.has_updated_at /\ (job.aware <=> since.kind = "naive")

WaitValues == (-1)..MaxWait \cup { PollCap, PollCap + 1 }

\* Line 155 and lines 158-161: the request is answered at once.
answers_at_once(since, wait) ==
    since.kind \in { "none", "empty" } \/ wait <= 0 \/ since.kind = "unparseable"

wait_seconds(wait) == PyMax(0, PyMin(wait, PollCap))

\* Lines 165-168: the two break conditions of the loop.
poll_satisfied(job, since) ==
    \/ job.has_updated_at /\ job.updated_at > since.t
    \/ job.status \in { "completed", "failed" }

\* The loop from its head, with `elapsed` sleeps done and `job` in hand:
\* it returns the job, raises or goes to sleep.
loop_head(job, since, wait, elapsed) ==
    IF elapsed >= wait_seconds(wait) THEN "returned"
    ELSE IF comparison_raises(job, since) THEN "raised"
    ELSE IF poll_satisfied(job, since) THEN "returned"
    ELSE "sleeping"

PollInit ==
    /\ gl_pc = "request"
    /\ gl_since \in SinceValues
    /\ gl_wait \in WaitValues
    /\ gl_row \in { r \in JobRows : r.updated_at < MaxTime }
    /\ gl_row_exists = TRUE
    /\ gl_job = gl_row
    /\ gl_elapsed = 0
    /\ gl_satisfied_at = -1

PollIdle ==
    /\ gl_pc = "idle"
    /\ gl_since = Since("none", 0)
    /\ gl_wait = 0
    /\ gl_row = JobRow("queued", FALSE, 0, FALSE)
    /\ gl_row_exists = TRUE
    /\ gl_job = gl_row
    /\ gl_elapsed = 0
    /\ gl_satisfied_at = -1

\* Lines 152-164 and the first pass through the loop head.
GlRequest ==
    /\ gl_pc = "request"
    /\ gl_job' = gl_row
    /\ gl_pc' = IF answers_at_once(gl_since, gl_wait) THEN "returned"
                ELSE loop_head(gl_row, gl_since, gl_wait, 0)
    /\ gl_satisfied_at' = IF /\ ~answers_at_once(gl_since, gl_wait)
                             /\ ~comparison_raises(gl_row, gl_since)
                             /\ poll_satisfied(gl_row, gl_since)
                          THEN 0 ELSE gl_satisfied_at
    /\ UNCHANGED <<gl_since, gl_wait, gl_row, gl_row_exists, gl_elapsed>>
    /\ UNCHANGED notPollVars

\* Lines 169-173 and the next pass through the loop head: the sleep ends,
\* the job is read again and the loop goes on or ends.  The query runs in
\* the session that loaded the job before, which may hand back the row as
\* it is now or the state it already holds.  A job that is gone ends the
\* loop and the response cannot be built.
GlWake ==
    /\ gl_pc = "sleeping"
    /\ gl_elapsed' = gl_elapsed + 1
    /\ IF gl_row_exists
       THEN /\ gl_job' \in { gl_row, gl_job }
            /\ gl_pc' = loop_head(gl_job', gl_since, gl_wait, gl_elapsed + 1)
            /\ gl_satisfied_at' = IF /\ gl_satisfied_at = -1
                                     /\ ~comparison_raises(gl_job', gl_since)
                                     /\ poll_satisfied(gl_job', gl_since)
                                  THEN gl_elapsed + 1 ELSE gl_satisfied_at
       ELSE /\ gl_pc' = "raised"
            /\ UNCHANGED <<gl_job, gl_satisfied_at>>
    /\ UNCHANGED <<gl_since, gl_wait, gl_row, gl_row_exists>>
    /\ UNCHANGED notPollVars

\* While the handler sleeps a run updates the job: update_job_state sets
\* fields and updated_at moves on.
GlRowUpdated ==
    /\ gl_pc = "sleeping"
    /\ gl_row_exists
    /\ gl_row.status \notin { "completed", "failed" }
    /\ gl_row.updated_at < MaxTime
    /\ \E status \in { "running", "completed", "failed" } :
         gl_row' = JobRow(status, TRUE, gl_row.updated_at + 1, gl_row.aware)
    /\ UNCHANGED <<gl_pc, gl_since, gl_wait, gl_row_exists, gl_job, gl_elapsed,
                   gl_satisfied_at>>
    /\ UNCHANGED notPollVars

\* While the handler sleeps another request starts a generation
\* (generate_project, generate_project_stream): a new queued job is
\* committed and is from then on the latest job of the project.
GlRowInserted ==
    /\ gl_pc = "sleeping"
    /\ gl_row.updated_at < MaxTime
    /\ gl_row' = JobRow("queued", TRUE, gl_row.updated_at + 1, gl_row.aware)
    /\ gl_row_exists' = TRUE
    /\ UNCHANGED <<gl_pc, gl_since, gl_wait, gl_job, gl_elapsed, gl_satisfied_at>>
    /\ UNCHANGED notPollVars

\* While the handler sleeps the project's jobs are deleted.
GlRowDeleted ==
    /\ gl_pc = "sleeping"
    /\ gl_row_exists
    /\ gl_row_exists' = FALSE
    /\ UNCHANGED <<gl_pc, gl_since, gl_wait, gl_row, gl_job, gl_elapsed, gl_satisfied_at>>
    /\ UNCHANGED notPollVars

PollNext == GlRequest \/ GlWake \/ GlRowUpdated \/ GlRowInserted \/ GlRowDeleted

(***************************************************************************)
(* The workspace of a copyright project under the runs of two generate     *)
(* requests for the same project id (copyright_api.py lines 193-212,       *)
(* copyright_service.py lines 99-140 and 502-849).  generate_project      *)
(* creates a task per request; a task runs until its next await, so the   *)
(* stretches between the awaits of the two runs interleave.  Paths are     *)
(* sequences of segments below the project directory.                      *)
(***************************************************************************)

\* The two requests in flight.
RunIds == { "first", "second" }

\* Who wrote a file last: "" when the file does not exist, "old" for a run
\* that ended before the two requests, "vendor" for a file copied from the
\* vendor directory.
NoFile == ""

GeneratedFolders == { <<"process_docs">>, <<"output_docs">>, <<"output_sourcecode">> }
SourceSubfolders == { <<"output_sourcecode", "front">>, <<"output_sourcecode", "backend">>,
                      <<"output_sourcecode", "db">> }
GeneratedDirs == GeneratedFolders \cup SourceSubfolders
SyncedDirs == { <<"requires_docs">>, <<"specs_docs">>, <<"system_prompts">>, <<"scripts">> }

MergeScriptPath == <<"scripts", "generators", "merge_all_simple.py">>
RequirementsPath == <<"requires_docs", "requirements.md">>
ConfigPath == <<"ai-copyright-config.json">>
FrameworkPath == <<"process_docs", "framework.md">>
PageListPath == <<"process_docs", "pages.md">>
UiDesignPath == <<"process_docs", "ui.md">>
FrontPagePath == <<"output_sourcecode", "front", "index.html">>
SchemaPath == <<"output_sourcecode", "db", "database_schema.sql">>
BackendAppPath == <<"output_sourcecode", "backend", "app.py">>
ManualPath == <<"output_docs", "manual.txt">>
FormPath == <<"output_docs", "form.md">>
\* Paths a completion may declare for its files, safe_write_files being
\* rooted at the project directory.
DraftPath == <<"process_docs", "drafts", "notes.md">>
StrayScriptPath == <<"src", "App.jsx">>
StrayPagePath == <<"src", "index.html">>
\* A file beside the project directory: a path that starts with ".." is
\* above the project directory.
OutsidePath == <<"..", "index.html">>

\* The files of the five pages extract_page_items returns when the answer
\* is no JSON array (lines 355-361).
DefaultPageFiles == <<"dashboard.html", "projects.html", "generate.html",
                      "settings.html", "help.html">>

VendorPaths == { MergeScriptPath }
WsPaths ==
    { MergeScriptPath, RequirementsPath, ConfigPath, FrameworkPath, PageListPath,
      UiDesignPath, FrontPagePath, SchemaPath, BackendAppPath, ManualPath, FormPath,
      DraftPath, StrayScriptPath, OutsidePath }
        \cup { <<"output_sourcecode", "front", DefaultPageFiles[i]>> :
                 i \in 1..Len(DefaultPageFiles) }

\* The path is below the project directory.
InProject(path) == path # <<>> /\ path[1] # ".."

\* The directories above a path.
ParentDirs(path) == { SubSeq(path, 1, n) : n \in 1..(Len(path) - 1) }

IsUnder(path, dir) == IsProperPrefix(dir, path)

Workspace(files, dirs) == [files |-> files, dirs |-> dirs]

\* target.mkdir(parents=True, exist_ok=True).
mkdir(fs, dir) == [fs EXCEPT !.dirs = @ \cup { dir } \cup ParentDirs(dir)]

\* shutil.rmtree(target): the directory goes with everything below it.
rmtree(fs, target) ==
    Workspace([p \in WsPaths |-> IF IsUnder(p, target) THEN NoFile ELSE fs.files[p]],
              { d \in fs.dirs : d # target /\ ~IsUnder(d, target) })

\* write_text / copy2 of a file whose directories exist or are made; of
\* the directories only those of the project are kept.
write_file(fs, path, by) ==
    Workspace([fs.files EXCEPT ![path] = by],
              fs.dirs \cup { d \in ParentDirs(path) : InProject(d) })

RECURSIVE write_files(_, _, _)
write_files(fs, paths, by) ==
    IF paths = {} THEN fs
    ELSE LET p == CHOOSE q \in paths : TRUE
         IN  write_files(write_file(fs, p, by), paths \ { p }, by)

RECURSIVE mkdirs(_, _)
mkdirs(fs, dirs) ==
    IF dirs = {} THEN fs
    ELSE LET d == CHOOSE e \in dirs : TRUE
         IN  mkdirs(mkdir(fs, d), dirs \ { d })

\* Mutant: a folder that exists is left as it is.
RECURSIVE reset_folders_kept(_, _)
reset_folders_kept(fs, folders) ==
    IF folders = {} THEN fs
    ELSE LET target == CHOOSE f \in folders : TRUE
         IN  reset_folders_kept(mkdir(fs, target), folders \ { target })

\* The first loop of reset_generated_dirs (lines 113-117): a folder that
\* exists is removed with its content, then made.
RECURSIVE reset_folders(_, _)
reset_folders(fs, folders) ==
    IF folders = {} THEN fs
    ELSE LET target == CHOOSE f \in folders : TRUE
             cleared == IF target \in fs.dirs THEN rmtree(fs, target) ELSE fs
         IN  reset_folders(mkdir(cleared, target), folders \ { target })

\* reset_generated_dirs (lines 112-119).
reset_generated_dirs(fs) == mkdirs(reset_folders(fs, GeneratedFolders), SourceSubfolders)

\* prepare_project_workspace (lines 122-140): the synced directories are
\* made, the vendor files copied over, the generated folders reset.
prepare_project_workspace(fs) ==
    reset_generated_dirs(write_files(mkdirs(fs, SyncedDirs), VendorPaths, "vendor"))

\* The files of the project directory with their writers, as zip_project
\* collects them (lines 467-472).
zip_project(fs) ==
    { <<p, fs.files[p]>> : p \in { q \in WsPaths : InProject(q) /\ fs.files[q] # NoFile } }

\* The awaits of a run in their order: each is the call whose answer the
\* next stretch handles, "page_items" being the call of extract_page_items
\* (line 646).  The await of extract_framework_insights (line 622) is left
\* out: the stretch after it touches neither the workspace nor the page
\* list.
WorkSteps == <<"framework", "pages", "page_items", "ui", "frontend", "database",
               "backend", "manual", "form">>

StepAfter(step) ==
    LET i == CHOOSE j \in 1..Len(WorkSteps) : WorkSteps[j] = step
    IN  IF i = Len(WorkSteps) THEN "archived" ELSE WorkSteps[i + 1]

\* The paths the file blocks of a completion declare (parse_file_blocks),
\* none when it has no block.
FrontendAnswers == { {}, { FrontPagePath } }
DatabaseAnswers == { {}, { SchemaPath } }
BackendAnswers == { {}, { BackendAppPath } }

\* path.suffix.lower() == ".html", over the file names of the model.
HtmlNames ==
    { "index.html", "home.html" }
        \cup { DefaultPageFiles[i] : i \in 1..Len(DefaultPageFiles) }
IsHtml(path) == path[Len(path)] \in HtmlNames

\* Where a path with ".." segments lands: a ".." takes the segment before
\* it away, and stays when there is none or when that is a ".." itself
\* (the path then lies above the project directory).
RECURSIVE resolve_from(_, _)
resolve_from(done, rest) ==
    IF rest = <<>> THEN done
    ELSE IF Head(rest) = ".." /\ done # <<>> /\ done[Len(done)] # ".."
    THEN resolve_from(SubSeq(done, 1, Len(done) - 1), Tail(rest))
    ELSE resolve_from(Append(done, Head(rest)), Tail(rest))

resolve(path) == resolve_from(<<>>, path)

\* safe_write_files on declared relative paths (lines 287-298): a path
\* with a ".." segment is skipped, the others are written below the
\* project directory.
written_paths(file_map) ==
    { p \in file_map : \A i \in 1..Len(p) : p[i] # ".." }

\* create_fallback_frontend_files (lines 364-416): one file per page of
\* the list, at output_sourcecode/front/<file> (`pages` holds the file of
\* each page as the segments of a path), none for an empty list.  The file
\* of a page is the text of the extraction answer as it came, and the
\* target is not checked against the project directory.
FrontDir == <<"output_sourcecode", "front">>
DbDir == <<"output_sourcecode", "db">>
BackendDir == <<"output_sourcecode", "backend">>

fallback_frontend_paths(pages) ==
    { resolve(FrontDir \o pages[i]) : i \in 1..Len(pages) }

\* The page list whose only page has the file index.html.
IndexPageOnly == << <<"index.html">> >>

\* The five default pages, each by its file.
DefaultPagesByFile == [i \in 1..Len(DefaultPageFiles) |-> <<DefaultPageFiles[i]>>]

\* The page lists extract_page_items hands to the frontend stage: empty
\* (the answer was the array []), one page, one page whose file climbs
\* above the project directory, the default pages (the answer was no JSON
\* array).
ClimbingPageOnly == << <<"..", "..", "..", "index.html">> >>
ExtractedPageLists == { <<>>, IndexPageOnly, ClimbingPageOnly, DefaultPagesByFile }

\* Lines 700-708: the declared files are written; the fallback pages when
\* no file block was declared or no html file was written.
frontend_paths(answer, pages) ==
    IF \E p \in written_paths(answer) : IsHtml(p)
    THEN written_paths(answer)
    ELSE written_paths(answer) \cup fallback_frontend_paths(pages)

\* Lines 733-738 and 763-768: the declared files, or the fallback file
\* when no file block was declared.
database_paths(answer) == IF answer # {} THEN written_paths(answer) ELSE { SchemaPath }
backend_paths(answer) == IF answer # {} THEN written_paths(answer) ELSE { BackendAppPath }

\* The files the stretch after the await `step` writes, for each answer,
\* `pages` being the page list the run holds.
StepWrites(step, pages) ==
    CASE step = "framework" -> { { FrameworkPath } }
      [] step = "pages" -> { { PageListPath } }
      [] step = "page_items" -> { {} }
      [] step = "ui" -> { { UiDesignPath } }
      [] step = "frontend" -> { frontend_paths(a, pages) : a \in FrontendAnswers }
      [] step = "database" -> { database_paths(a) : a \in DatabaseAnswers }
      [] step = "backend" -> { backend_paths(a) : a \in BackendAnswers }
      [] step = "manual" -> { { ManualPath } }
      [] step = "form" -> { { FormPath } }

EmptyWorkspace == Workspace([p \in WsPaths |-> NoFile], {})

\* What an earlier run of the project left: every file it wrote, among them
\* files at paths its completions declared.
LeftoverWorkspace ==
    Workspace([p \in WsPaths |-> IF p \in VendorPaths THEN "vendor"
                                 ELSE IF p = OutsidePath THEN NoFile
                                 ELSE "old"],
              GeneratedDirs \cup SyncedDirs
                  \cup UNION { ParentDirs(p) : p \in WsPaths \ { OutsidePath } })

WorkspaceInit ==
    /\ ws_pc = [r \in RunIds |-> "queued"]
    /\ ws_fs \in { EmptyWorkspace, LeftoverWorkspace }
    /\ ws_written = [r \in RunIds |-> {}]
    /\ ws_archive = [r \in RunIds |-> {}]
    /\ ws_prior = EmptyWorkspace
    /\ ws_prepared = ""
    /\ ws_pages = [r \in RunIds |-> <<>>]

WorkspaceIdle ==
    /\ ws_pc = [r \in RunIds |-> "idle"]
    /\ ws_fs = EmptyWorkspace
    /\ ws_written = [r \in RunIds |-> {}]
    /\ ws_archive = [r \in RunIds |-> {}]
    /\ ws_prior = EmptyWorkspace
    /\ ws_prepared = ""
    /\ ws_pages = [r \in RunIds |-> <<>>]

\* run_copyright_generation up to its first await (lines 502-618): the
\* workspace is prepared, the requirement documents and the configuration
\* are written, and the framework call is sent.
WsStart(r) ==
    /\ ws_pc[r] = "queued"
    /\ LET prepared == prepare_project_workspace(ws_fs)
       IN  ws_fs' = write_files(prepared, { RequirementsPath, ConfigPath }, r)
    /\ ws_prior' = ws_fs
    /\ ws_prepared' = r
    /\ ws_written' = [ws_written EXCEPT ![r] = { RequirementsPath, ConfigPath }]
    /\ ws_pc' = [ws_pc EXCEPT ![r] = WorkSteps[1]]
    /\ UNCHANGED <<ws_archive, ws_pages>>
    /\ UNCHANGED notWorkspaceVars

\* Lines 508-545: a record is missing or the configuration is refused; the
\* run ends before it touches the workspace.
WsRefuse(r) ==
    /\ ws_pc[r] = "queued"
    /\ ws_pc' = [ws_pc EXCEPT ![r] = "failed"]
    /\ UNCHANGED <<ws_fs, ws_written, ws_archive, ws_prior, ws_prepared, ws_pages>>
    /\ UNCHANGED notWorkspaceVars

\* A completion call of the run raises: the run ends without an archive
\* (lines 858-875).
WsCallRaise(r) ==
    /\ ws_pc[r] \in { WorkSteps[i] : i \in 1..Len(WorkSteps) }
    /\ ws_pc' = [ws_pc EXCEPT ![r] = "failed"]
    /\ UNCHANGED <<ws_fs, ws_written, ws_archive, ws_prior, ws_prepared, ws_pages>>
    /\ UNCHANGED notWorkspaceVars

\* A call before the last returns: its files are written and the next
\* call is sent (lines 618-814).  After the page call pages.md is written
\* and the run awaits extract_page_items (lines 644-646); the stretch after
\* that await writes no file and binds the page list the run keeps for its
\* frontend stage.
WsStep(r) ==
    /\ ws_pc[r] \in { WorkSteps[i] : i \in 1..(Len(WorkSteps) - 1) }
    /\ \E paths \in StepWrites(ws_pc[r], ws_pages[r]) :
         /\ ws_fs' = write_files(ws_fs, paths, r)
         /\ ws_written' = [ws_written EXCEPT ![r] = @ \cup paths]
    /\ IF ws_pc[r] = "page_items"
       THEN \E pages \in ExtractedPageLists : ws_pages' = [ws_pages EXCEPT ![r] = pages]
       ELSE UNCHANGED ws_pages
    /\ ws_pc' = [ws_pc EXCEPT ![r] = StepAfter(ws_pc[r])]
    /\ UNCHANGED <<ws_archive, ws_prior, ws_prepared>>
    /\ UNCHANGED notWorkspaceVars

\* The last completion call returns (lines 814-849): the form is written,
\* the merge script runs and the project directory is archived.  The files
\* the merge script adds are left out: the script is not among the sources.
WsArchive(r) ==
    /\ ws_pc[r] = WorkSteps[Len(WorkSteps)]
    /\ ws_fs' = write_files(ws_fs, { FormPath }, r)
    /\ ws_written' = [ws_written EXCEPT ![r] = @ \cup { FormPath }]
    /\ ws_archive' = [ws_archive EXCEPT ![r] = zip_project(ws_fs')]
    /\ ws_pc' = [ws_pc EXCEPT ![r] = "archived"]
    /\ UNCHANGED <<ws_prior, ws_prepared, ws_pages>>
    /\ UNCHANGED notWorkspaceVars

\* The merge script ends with a non-zero code (lines 832-833): the form is
\* written, nothing is archived.
WsMergeFails(r) ==
    /\ ws_pc[r] = WorkSteps[Len(WorkSteps)]
    /\ ws_fs' = write_files(ws_fs, { FormPath }, r)
    /\ ws_written' = [ws_written EXCEPT ![r] = @ \cup { FormPath }]
    /\ ws_pc' = [ws_pc EXCEPT ![r] = "failed"]
    /\ UNCHANGED <<ws_archive, ws_prior, ws_prepared, ws_pages>>
    /\ UNCHANGED notWorkspaceVars

WorkspaceNext ==
    \E r \in RunIds :
        \/ WsStart(r)
        \/ WsRefuse(r)
        \/ WsCallRaise(r)
        \/ WsStep(r)
        \/ WsArchive(r)
        \/ WsMergeFails(r)

(***************************************************************************)
(* The copyright_jobs table of one project under several generate          *)
(* requests (routers/copyright_api.py generate_project) and the runs they  *)
(* start (copyright_service.py run_copyright_generation).  A job's id is   *)
(* its position in the table.                                              *)
(***************************************************************************)
MaxJobs == 2

\* The rows earlier runs of the project left behind.
CompletedJob == Job("completed", "completed", Stages[Len(Stages)].message, 100, "", "zip")
RefusedJob == Job("failed", "error", "configure AI first", 0, "AI not configured", "")

EarlierTables == { <<>>, <<CompletedJob>>, <<RefusedJob>> }

\* What the runs of the requests read.
TableInputs ==
    { RunInput("", "set", "set", "text"), RunInput("", "none", "set", "text") }

\* Mutant: the run takes the project's latest job.
job_of_run_latest(table, job_id) == Len(table)

\* Line 505: db.query(CopyrightJob).filter(CopyrightJob.id == job_id).first(),
\* the row the run updates.
job_of_run(table, job_id) == job_id

\* The table after the run bound to job_id has committed `row`.
commit_row(table, job_id, row) ==
    [table EXCEPT ![job_of_run(table, job_id)] = row]

TableInit ==
    /\ jt_table \in EarlierTables
    /\ jt_in = [i \in 1..Len(jt_table) |-> RunInput("", "set", "set", "text")]
    /\ jt_pc = [i \in 1..Len(jt_table) |-> "ended"]
    /\ jt_step = [i \in 1..Len(jt_table) |-> 0]
    /\ jt_actor = 0

TableIdle ==
    /\ jt_table = <<>>
    /\ jt_in = <<>>
    /\ jt_pc = <<>>
    /\ jt_step = <<>>
    /\ jt_actor = 0

\* generate_project (lines 193-212): a new row is committed and a task is
\* created for its id.
JtGenerate ==
    /\ Len(jt_table) < MaxJobs
    /\ \E in \in TableInputs : jt_in' = Append(jt_in, in)
    /\ jt_table' = Append(jt_table, QueuedJob)
    /\ jt_pc' = Append(jt_pc, "queued")
    /\ jt_step' = Append(jt_step, 0)
    /\ jt_actor' = 0
    /\ UNCHANGED notTableVars

\* Lines 514-536 in the run bound to job_id: the configuration is refused.
JtRefuse(job_id) ==
    /\ jt_pc[job_id] = "queued"
    /\ config_rejection(jt_in[job_id]) # ""
    /\ jt_table' = commit_row(jt_table, job_id,
                     failure_update(jt_table[job_of_run(jt_table, job_id)],
                                    rejection_message(config_rejection(jt_in[job_id])),
                                    rejection_error(config_rejection(jt_in[job_id]))))
    /\ jt_pc' = [jt_pc EXCEPT ![job_id] = "ended"]
    /\ jt_actor' = job_id
    /\ UNCHANGED <<jt_in, jt_step>>
    /\ UNCHANGED notTableVars

\* Lines 538-545 in the run bound to job_id: its job becomes Running.
JtStart(job_id) ==
    /\ jt_pc[job_id] = "queued"
    /\ config_rejection(jt_in[job_id]) = ""
    /\ jt_table' = commit_row(jt_table, job_id,
                     stage_update(jt_table[job_of_run(jt_table, job_id)], 1))
    /\ jt_step' = [jt_step EXCEPT ![job_id] = 1]
    /\ jt_pc' = [jt_pc EXCEPT ![job_id] = "working"]
    /\ jt_actor' = job_id
    /\ UNCHANGED jt_in
    /\ UNCHANGED notTableVars

\* The work of the current stage of the run bound to job_id returns and
\* its next update is committed.
JtWorkDone(job_id) ==
    /\ jt_pc[job_id] = "working"
    /\ jt_step[job_id] < Len(Stages)
    /\ jt_table' = commit_row(jt_table, job_id,
                     stage_update(jt_table[job_of_run(jt_table, job_id)], jt_step[job_id] + 1))
    /\ jt_step' = [jt_step EXCEPT ![job_id] = jt_step[job_id] + 1]
    /\ jt_pc' = [jt_pc EXCEPT ![job_id] =
                   IF jt_step[job_id] + 1 = Len(Stages) THEN "ended" ELSE "working"]
    /\ jt_actor' = job_id
    /\ UNCHANGED jt_in
    /\ UNCHANGED notTableVars

\* The RuntimeErrors run_prompt raises over the completions its attempts
\* may meet (lines 248-251, 262-265).
CallErrors ==
    { raised_error(run_prompt(trace, 0).result) :
        trace \in { t \in CallTraces : run_prompt(t, 0).result.k # "text" } }

\* The exceptions the work of a stage may raise into the except block: of
\* the file system at any stage, of run_prompt at a stage that calls it,
\* of line 833 at the merge.
WorkErrors(stage) ==
    OSErrors
        \cup (IF stage.llm_calls > 0 THEN CallErrors ELSE {})
        \cup (IF stage.work = "merge"
              THEN { merge_error(Diag(1, stderr, stdout)) :
                       stderr \in DiagnosticTexts, stdout \in DiagnosticTexts }
              ELSE {})

\* The work of the current stage raises: the except block (lines 855-873)
\* queries the job by job_id again and marks it failed with the text of
\* the exception, or with the rate-limit sentence.
JtWorkRaise(job_id) ==
    /\ jt_pc[job_id] = "working"
    /\ jt_step[job_id] < Len(Stages)
    /\ \E exc \in WorkErrors(Stages[jt_step[job_id]]) :
         jt_table' = commit_row(jt_table, job_id,
                       failure_update(jt_table[job_of_run(jt_table, job_id)],
                                      "generation failed: " \o error_message(exc),
                                      error_message(exc)))
    /\ jt_pc' = [jt_pc EXCEPT ![job_id] = "ended"]
    /\ jt_actor' = job_id
    /\ UNCHANGED <<jt_in, jt_step>>
    /\ UNCHANGED notTableVars

TableNext ==
    \/ JtGenerate
    \/ \E job_id \in 1..Len(jt_table) :
         JtRefuse(job_id) \/ JtStart(job_id) \/ JtWorkDone(job_id) \/ JtWorkRaise(job_id)

(***************************************************************************)
(* The teaching-plan stream: event_generator of                            *)
(* generate_teaching_plan_stream (routers/teaching_plan_api.py), one       *)
(* action per stretch of code between two points where the generator is   *)
(* suspended (a yield or an await).                                        *)
(***************************************************************************)
\* What the stream reads: the course catalog and the skip_slots query
\* parameter (absent, empty, the JSON text of a list, the JSON text of
\* another value, a text that is not JSON).
StreamInput(course_catalog, skip_slots) ==
    [course_catalog |-> course_catalog, skip_slots |-> skip_slots]

StreamInputs ==
    { StreamInput(c, s) : c \in { "none", "empty", "text" },
                          s \in { "none", "empty", "list", "object", "broken" } }

\* Lines 82-98: the skip_slots parameter is refused.
skip_slots_refused(skip_slots) ==
    ~Falsy(skip_slots) /\ skip_slots # "list"

\* Mutant: the except branch announces a stage of its own.
TeachingFailureEvent == StreamEvent("failed", 0)

\* Lines 60-66, 91-97 and 213-215: the error event.
TeachingErrorEvent == StreamEvent("error", 0)

StreamInit ==
    /\ ts_pc = "start"
    /\ ts_in \in StreamInputs
    /\ ts_events = <<>>

StreamIdle ==
    /\ ts_pc = "idle"
    /\ ts_in = StreamInput("none", "none")
    /\ ts_events = <<>>

\* The except branch (lines 208-215) and the two refusals (lines 60-66,
\* 91-97): the error event is yielded and the stream is over.
TsFail ==
    /\ ts_events' = Append(ts_events, TeachingErrorEvent)
    /\ ts_pc' = "ended"

\* Lines 52-58: the generator yields its first event and is suspended there.
TsValidating ==
    /\ ts_pc = "start"
    /\ ts_events' = Append(ts_events, StreamEvent("validating", 10))
    /\ ts_pc' = "validating"
    /\ UNCHANGED ts_in
    /\ UNCHANGED notStreamVars

\* Lines 60-69: the error event of an empty catalog.
TsRefuseCatalog ==
    /\ ts_pc = "validating"
    /\ Falsy(ts_in.course_catalog)
    /\ TsFail
    /\ UNCHANGED ts_in
    /\ UNCHANGED notStreamVars

\* Line 71: the generator awaits asyncio.sleep(0.5).
TsSleep ==
    /\ ts_pc = "validating"
    /\ ~Falsy(ts_in.course_catalog)
    /\ ts_pc' = "sleeping"
    /\ UNCHANGED <<ts_in, ts_events>>
    /\ UNCHANGED notStreamVars

\* Lines 73-80: the second event.
TsGenerating ==
    /\ ts_pc = "sleeping"
    /\ ts_events' = Append(ts_events, StreamEvent("generating", 30))
    /\ ts_pc' = "generating"
    /\ UNCHANGED ts_in
    /\ UNCHANGED notStreamVars

\* Lines 82-98: the error event of a skip_slots parameter that is not the
\* JSON text of a list.
TsRefuseSkipSlots ==
    /\ ts_pc = "generating"
    /\ skip_slots_refused(ts_in.skip_slots)
    /\ TsFail
    /\ UNCHANGED ts_in
    /\ UNCHANGED notStreamVars

\* Lines 82-115: the call of generate_teaching_plan_schedule.
TsRequestSchedule ==
    /\ ts_pc = "generating"
    /\ ~skip_slots_refused(ts_in.skip_slots)
    /\ ts_pc' = "await_schedule"
    /\ UNCHANGED <<ts_in, ts_events>>
    /\ UNCHANGED notStreamVars

\* Lines 208-215: generate_teaching_plan_schedule raises.
TsScheduleRaises ==
    /\ ts_pc = "await_schedule"
    /\ TsFail
    /\ UNCHANGED ts_in
    /\ UNCHANGED notStreamVars

\* Lines 117-123: the schedule is returned and the third event yielded.
TsScheduleReturns ==
    /\ ts_pc = "await_schedule"
    /\ ts_events' = Append(ts_events, StreamEvent("generating", 70))
    /\ ts_pc' = "generated"
    /\ UNCHANGED ts_in
    /\ UNCHANGED notStreamVars

\* Lines 125-132: the rendering event; nothing is rendered yet.
TsRendering ==
    /\ ts_pc = "generated"
    /\ ts_events' = Append(ts_events, StreamEvent("rendering", 85))
    /\ ts_pc' = "rendering"
    /\ UNCHANGED ts_in
    /\ UNCHANGED notStreamVars

\* Lines 134-159: the document is rendered and the saving event yielded.
TsRender ==
    /\ ts_pc = "rendering"
    /\ ts_events' = Append(ts_events, StreamEvent("saving", 95))
    /\ ts_pc' = "saving"
    /\ UNCHANGED ts_in
    /\ UNCHANGED notStreamVars

\* render_docx_template raises (line 147).
TsRenderRaises ==
    /\ ts_pc = "rendering"
    /\ TsFail
    /\ UNCHANGED ts_in
    /\ UNCHANGED notStreamVars

\* Lines 161-206: the document is saved and the completed event yielded.
TsSave ==
    /\ ts_pc = "saving"
    /\ ts_events' = Append(ts_events, StreamEvent("completed", 100))
    /\ ts_pc' = "ended"
    /\ UNCHANGED ts_in
    /\ UNCHANGED notStreamVars

\* The database raises while the document is saved (lines 162-194).
TsSaveRaises ==
    /\ ts_pc = "saving"
    /\ TsFail
    /\ UNCHANGED ts_in
    /\ UNCHANGED notStreamVars

StreamNext ==
    \/ TsValidating \/ TsRefuseCatalog \/ TsSleep \/ TsGenerating
    \/ TsRefuseSkipSlots \/ TsRequestSchedule \/ TsScheduleRaises \/ TsScheduleReturns
    \/ TsRendering \/ TsRender \/ TsRenderRaises \/ TsSave \/ TsSaveRaises

(***************************************************************************)
(* The plan parameters of an uploaded teaching plan: the end of            *)
(* parse_teaching_plan_params (ai_service.py lines 389-405) and            *)
(* build_plan_params_from_schedule (utils/plan_params.py).  An item of a   *)
(* schedule is its order and its hour, each an integer or None.  Hour      *)
(* values stay below 8, where the iteration of a Python set of integers    *)
(* is ascending.                                                           *)
(***************************************************************************)
MaxPlanItems == 3
MaxCourseHours == 5

\* An item of a schedule.
ParamItem(order, hour) == [order |-> order, hour |-> hour]

\* normalize_schedule_item, the hour: _safe_int(item.get("hour") or ...).
normalize_hour(hour) == IF Truthy(hour) THEN hour ELSE NoneV

\* normalize_schedule_item, the order: _safe_int(item.get("order") or ...).
normalize_order(order) == IF Truthy(order) THEN order ELSE NoneV

\* plan_params.py lines 72-85, the two fields.
normalize_schedule_item(item) ==
    ParamItem(normalize_order(item.order), normalize_hour(item.hour))

\* Line 103: the items without an order are left out.
with_order(items) == SelectSeq(items, LAMBDA item : item.order # NoneV)

\* Line 104: list.sort(key=order), which keeps items of equal order in
\* the order they had.
RECURSIVE sort_by_order(_)
sort_by_order(items) ==
    IF items = <<>> THEN <<>>
    ELSE LET last == items[Len(items)]
             front == sort_by_order(SubSeq(items, 1, Len(items) - 1))
             before == SelectSeq(front, LAMBDA item : item.order.v <= last.order.v)
             after == SelectSeq(front, LAMBDA item : item.order.v > last.order.v)
         IN  before \o <<last>> \o after

\* The hours of the items of a schedule.
hours_of(items) == [i \in 1..Len(items) |-> items[i].hour]

\* A positive integer.
PositiveInt(x) == IsInt(x) /\ x.v > 0

\* Python's round of the quotient of two positive integers: to the nearest
\* integer, a tie to the even one.
PyRoundDiv(a, b) ==
    LET q == a \div b
        r == a % b
    IN  IF 2 * r < b THEN q
        ELSE IF 2 * r > b THEN q + 1
        ELSE IF q % 2 = 0 THEN q ELSE q + 1

CeilDiv(a, b) == (a + b - 1) \div b

\* ai_service.py lines 395-400: the hour_per_class handed to
\* build_plan_params_from_schedule.
fallback_hour_per_class(hour_per_class, course_total_hours, count) ==
    IF PositiveInt(hour_per_class) THEN hour_per_class
    ELSE IF PositiveInt(course_total_hours)
    THEN IntV(PyMax(1, PyRoundDiv(course_total_hours.v, count)))
    ELSE NoneV

\* The positive hours of a schedule, and how often one occurs.
positive_hours(schedule) ==
    { schedule[i].v : i \in { j \in 1..Len(schedule) : PositiveInt(schedule[j]) } }

hours_count(schedule, h) ==
    Cardinality({ i \in 1..Len(schedule) : schedule[i] = IntV(h) })

\* max(set(hours), key=hours.count): the first of the most frequent values
\* in the set's iteration order.
mode_of_hours(schedule) ==
    CHOOSE h \in positive_hours(schedule) :
        \A g \in positive_hours(schedule) :
            \/ hours_count(schedule, g) < hours_count(schedule, h)
            \/ hours_count(schedule, g) = hours_count(schedule, h) /\ h <= g

\* plan_params.py lines 89-94.
infer_hour_per_class(schedule, fallback) ==
    IF positive_hours(schedule) # {} THEN IntV(mode_of_hours(schedule))
    ELSE IF PositiveInt(fallback) THEN fallback
    ELSE NoneV

\* plan_params.py lines 97-117: the items that carry an order, sorted by
\* it, with the missing hours filled in, and hour_per_class (NoneV: the key
\* is not set).
build_plan_params_from_schedule(schedule, hour_per_class) ==
    LET normalized ==
            sort_by_order(with_order([i \in 1..Len(schedule) |->
                                        normalize_schedule_item(schedule[i])]))
        inferred_hour == infer_hour_per_class(hours_of(normalized), hour_per_class)
    IN  [schedule |-> [i \in 1..Len(normalized) |->
                         IF Truthy(inferred_hour) /\ ~Truthy(normalized[i].hour)
                         THEN ParamItem(normalized[i].order, inferred_hour)
                         ELSE normalized[i]],
         hour_per_class |-> IF Truthy(inferred_hour) THEN inferred_hour ELSE NoneV]

NoParams == [schedule |-> <<>>, hour_per_class |-> NoneV]

\* The parsed answer of the extraction call and the course's total hours.
\* The items carry the orders 1..n, as they come or reversed, or the first
\* item carries no order, the order 0 or the order of the second.
ItemHours == { NoneV, IntV(0), IntV(1), IntV(2) }
OrderPatterns == { "ascending", "descending", "first_missing", "first_zero", "first_equal" }

order_in(pattern, i, n) ==
    IF pattern = "descending" THEN IntV(n + 1 - i)
    ELSE IF i > 1 \/ pattern = "ascending" THEN IntV(i)
    ELSE IF pattern = "first_missing" THEN NoneV
    ELSE IF pattern = "first_zero" THEN IntV(0)
    ELSE IntV(2)

ParamSchedules ==
    UNION { { [i \in 1..n |-> ParamItem(order_in(pattern, i, n), hours[i])] :
                hours \in [1..n -> ItemHours], pattern \in OrderPatterns } :
            n \in 0..MaxPlanItems }
SuppliedHours == { NoneV, IntV(0), IntV(1), IntV(2), IntV(3) }
CourseHours == { NoneV } \cup { IntV(n) : n \in 0..MaxCourseHours }

ParamsInit ==
    /\ pp_pc = "parsed"
    /\ pp_schedule \in ParamSchedules
    /\ pp_supplied \in SuppliedHours
    /\ pp_total \in CourseHours
    /\ pp_fallback = NoneV
    /\ pp_params = NoParams

ParamsIdle ==
    /\ pp_pc = "idle"
    /\ pp_schedule = <<>>
    /\ pp_supplied = NoneV
    /\ pp_total = NoneV
    /\ pp_fallback = NoneV
    /\ pp_params = NoParams

\* Lines 391-393: no schedule was extracted, ValueError.
PpRefuse ==
    /\ pp_pc = "parsed"
    /\ pp_schedule = <<>>
    /\ pp_pc' = "raised"
    /\ UNCHANGED <<pp_schedule, pp_supplied, pp_total, pp_fallback, pp_params>>
    /\ UNCHANGED notParamsVars

\* Lines 395-400.
PpFallback ==
    /\ pp_pc = "parsed"
    /\ pp_schedule # <<>>
    /\ pp_fallback' = fallback_hour_per_class(pp_supplied, pp_total, Len(pp_schedule))
    /\ pp_pc' = "resolved"
    /\ UNCHANGED <<pp_schedule, pp_supplied, pp_total, pp_params>>
    /\ UNCHANGED notParamsVars

\* Lines 402-405.
PpBuild ==
    /\ pp_pc = "resolved"
    /\ pp_params' = build_plan_params_from_schedule(pp_schedule, pp_fallback)
    /\ pp_pc' = "built"
    /\ UNCHANGED <<pp_schedule, pp_supplied, pp_total, pp_fallback>>
    /\ UNCHANGED notParamsVars

ParamsNext == PpRefuse \/ PpFallback \/ PpBuild

(***************************************************************************)
(* The two extraction calls of a copyright run: extract_framework_insights *)
(* and extract_page_items (copyright_service.py lines 301-361), over the   *)
(* text their run_prompt call returned.                                    *)
(***************************************************************************)
MaxPageItems == 2

\* A JSON value of a field of the framework answer: missing or null
\* ("none"), an array of strings ("list"), an array with an element that is
\* no string ("mixed", its elements as str() writes them), a string (its
\* characters), an object (its keys), a number, a boolean (1 for true).
Field(k, items, n) == [k |-> k, items |-> items, n |-> n]
FieldValues ==
    { Field("none", <<>>, 0), Field("list", <<>>, 0), Field("list", <<"a">>, 0),
      Field("list", <<"a", "b">>, 0), Field("mixed", <<"a", "1">>, 0),
      Field("str", <<>>, 0), Field("str", <<"a", "b">>, 0),
      Field("dict", <<>>, 0), Field("dict", <<"k">>, 0),
      Field("num", <<>>, 0), Field("num", <<>>, 5),
      Field("bool", <<>>, 0), Field("bool", <<>>, 1) }

\* Python's truth of such a value, and `value or []`.
field_truthy(f) == IF f.k \in { "num", "bool" } THEN f.n # 0 ELSE f.items # <<>>
or_empty_list(f) == IF field_truthy(f) THEN f ELSE Field("list", <<>>, 0)

\* "\n".join(f"- {item}" for item in value) if value else "": the lines of
\* the text.
bullet_lines(f) == [i \in 1..Len(f.items) |-> "- " \o f.items[i]]

\* The text run_prompt returned to extract_framework_insights: not JSON, a
\* JSON value that is not an object, or an object with the two fields.
FrameworkAnswer(k, module_list, innovation_points) ==
    [k |-> k, module_list |-> module_list, innovation_points |-> innovation_points]

FrameworkAnswers ==
    { FrameworkAnswer(k, Field("none", <<>>, 0), Field("none", <<>>, 0)) :
        k \in { "not_json", "array", "number" } }
    \cup { FrameworkAnswer("object", m, p) : m, p \in FieldValues }

\* Lines 317-322: the exception raised inside the try, or "".
framework_exception(answer) ==
    IF answer.k = "not_json" THEN "JSONDecodeError"
    ELSE IF answer.k # "object" THEN "AttributeError"
    ELSE IF or_empty_list(answer.module_list).k \in { "num", "bool" }
            \/ or_empty_list(answer.innovation_points).k \in { "num", "bool" }
    THEN "TypeError"
    ELSE ""

Insights(module_text, innovation_text) ==
    [module_text |-> module_text, innovation_text |-> innovation_text]
NoInsights == Insights(<<>>, <<>>)

\* Lines 316-325.
extract_framework_insights(answer) ==
    IF framework_exception(answer) # "" THEN Insights(<<>>, <<>>)
    ELSE Insights(bullet_lines(or_empty_list(answer.module_list)),
                  bullet_lines(or_empty_list(answer.innovation_points)))

\* An element of the page answer: an object with or without its fields, or
\* another JSON value.
PageElement(k, name, file) == [k |-> k, name |-> name, file |-> file]
Missing == "-"
PageElements ==
    { PageElement("object", "Login", "login.html"), PageElement("object", Missing, Missing),
      PageElement("other", Missing, Missing) }

PageAnswer(k, elements) == [k |-> k, elements |-> elements]
PageAnswers ==
    { PageAnswer(k, <<>>) : k \in { "not_json", "object", "number" } }
    \cup { PageAnswer("array", e) : e \in UNION { [1..n -> PageElements] : n \in 0..MaxPageItems } }

\* A page of the extracted list.
PageItem(name, file) == [name |-> name, file |-> file]

\* Lines 347-352: item.get("name", ...), item.get("file", "index.html").
page_of(element) ==
    PageItem(IF element.name = Missing THEN "page" ELSE element.name,
             IF element.file = Missing THEN "index.html" ELSE element.file)

IsObject(element) == element.k = "object"

\* Lines 355-361.
DefaultPages ==
    << PageItem("dashboard", "dashboard.html"), PageItem("projects", "projects.html"),
       PageItem("generate", "generate.html"), PageItem("settings", "settings.html"),
       PageItem("help", "help.html") >>

RECURSIVE pages_of(_)
pages_of(elements) ==
    IF elements = <<>> THEN <<>>
    ELSE IF IsObject(Head(elements))
    THEN <<page_of(Head(elements))>> \o pages_of(Tail(elements))
    ELSE pages_of(Tail(elements))

\* Mutant: nothing is returned for an answer that is not an array.
extract_page_items_returning_nothing(answer) ==
    IF answer.k = "array" THEN pages_of(answer.elements) ELSE <<>>

\* Lines 343-361.
extract_page_items(answer) ==
    IF answer.k = "array" THEN pages_of(answer.elements) ELSE DefaultPages

\* Lines 343-354: the exception raised inside the try, or "".
pages_exception(answer) ==
    IF answer.k = "not_json" THEN "JSONDecodeError" ELSE ""

ExtractInit ==
    /\ ex_pc = "framework"
    /\ ex_framework \in FrameworkAnswers
    /\ ex_pages \in PageAnswers
    /\ ex_insights = NoInsights
    /\ ex_page_items = <<>>
    /\ ex_caught = <<>>
    /\ ex_raised = ""

ExtractIdle ==
    /\ ex_pc = "idle"
    /\ ex_framework = FrameworkAnswer("not_json", Field("none", <<>>, 0), Field("none", <<>>, 0))
    /\ ex_pages = PageAnswer("not_json", <<>>)
    /\ ex_insights = NoInsights
    /\ ex_page_items = <<>>
    /\ ex_caught = <<>>
    /\ ex_raised = ""

\* Lines 621-625 of run_copyright_generation: extract_framework_insights
\* returns and the run goes on to the page plan.
ExFrameworkReturns ==
    /\ ex_pc = "framework"
    /\ ex_insights' = extract_framework_insights(ex_framework)
    /\ ex_caught' = Append(ex_caught, framework_exception(ex_framework))
    /\ ex_pc' = "pages"
    /\ UNCHANGED <<ex_framework, ex_pages, ex_page_items, ex_raised>>
    /\ UNCHANGED notExtractVars

\* Line 646: extract_page_items returns and the run goes on to the UI
\* design.
ExPagesReturns ==
    /\ ex_pc = "pages"
    /\ ex_page_items' = extract_page_items(ex_pages)
    /\ ex_caught' = Append(ex_caught, pages_exception(ex_pages))
    /\ ex_pc' = "ui"
    /\ UNCHANGED <<ex_framework, ex_pages, ex_insights, ex_raised>>
    /\ UNCHANGED notExtractVars

\* Lines 315 and 342: run_prompt, which is outside the try, raises and the
\* run ends in its except block.
ExCallRaises ==
    /\ ex_pc \in { "framework", "pages" }
    /\ ex_raised' = "RuntimeError"
    /\ ex_pc' = "failed"
    /\ UNCHANGED <<ex_framework, ex_pages, ex_insights, ex_page_items, ex_caught>>
    /\ UNCHANGED notExtractVars

ExtractNext == ExFrameworkReturns \/ ExPagesReturns \/ ExCallRaises

(***************************************************************************)
(* One copyright run from its preparation to the call for the user manual  *)
(* (run_copyright_generation, lines 547-770): the documents of             *)
(* requires_docs it finds and writes, the file texts it puts into its      *)
(* prompts, and the files it writes.  The text of a file is named by where  *)
(* it comes from: "earlier" for a run of the project that ended before     *)
(* this one, "vendor" for the vendor directory, "own" for the fields of    *)
(* the project as this run reads them, "run" for an answer of this run;    *)
(* cr_edited tells whether the project was edited since the run started.   *)
(* The vendor directory is not part of the sources: whether its            *)
(* requires_docs folder ships the two documents is left open.              *)
(***************************************************************************)
RequiresDocs == { "tech", "ui" }
NoText == ""

ProjectFlags == [include_tech_desc : BOOLEAN, include_ui_desc : BOOLEAN]

\* sync_directory(VENDOR_DIR / "requires_docs", ...) (lines 99-109, 131):
\* the files the vendor folder ships are copied over those of the project.
sync_requires_docs(docs, vendor) ==
    [d \in RequiresDocs |-> IF d \in vendor THEN "vendor" ELSE docs[d]]

\* write_project_documents (lines 155-163): a document is written when its
\* flag is set, and left as it is otherwise.
write_project_documents(docs, project) ==
    [d \in RequiresDocs |->
        IF d = "tech" THEN (IF project.include_tech_desc THEN "own" ELSE docs[d])
        ELSE (IF project.include_ui_desc THEN "own" ELSE docs[d])]

\* Line 616: tech_path.read_text() if tech_path.exists() else "".
framework_prompt_text(docs, project) == docs["tech"]

\* Lines 659-661: the UI document is read when it exists and the flag is
\* set.
ui_prompt_text(docs, project) ==
    IF docs["ui"] # NoText /\ project.include_ui_desc THEN docs["ui"] ELSE NoText

\* Line 758: the schema is read when it exists.
backend_prompt_text(files) == IF SchemaPath \in files THEN "run" ELSE NoText

\* A request of the run: the call and the file text its user prompt holds.
Prompt(call, file_text) == [call |-> call, file_text |-> file_text]

\* The page lists extract_page_items may return, each page by its file.
PageLists ==
    { <<>>, IndexPageOnly, << <<"..", "home.html">> >>, ClimbingPageOnly,
      DefaultPagesByFile }

\* The paths the file blocks of the three source answers may declare.
SourceFrontendAnswers ==
    { {}, { FrontPagePath }, { StrayPagePath }, { StrayScriptPath },
      { <<"..", "index.html">> }, { FrontDir \o <<"app.js">> } }
SourceDatabaseAnswers ==
    { {}, { SchemaPath }, { StrayScriptPath }, { <<"..", "schema.sql">> } }
SourceBackendAnswers ==
    { {}, { BackendAppPath }, { StrayScriptPath }, { <<"..", "app.py">> } }

NoAnswers == [frontend |-> {}, database |-> {}, backend |-> {}]

SourcesInit ==
    /\ cr_pc = "queued"
    /\ cr_project \in ProjectFlags
    /\ cr_vendor \in SUBSET RequiresDocs
    /\ cr_docs \in [RequiresDocs -> { NoText, "earlier" }]
    /\ cr_pages = <<>>
    /\ cr_answers = NoAnswers
    /\ cr_files = {}
    /\ cr_prompts = <<>>
    /\ cr_edited = FALSE

SourcesIdle ==
    /\ cr_pc = "idle"
    /\ cr_project = [include_tech_desc |-> FALSE, include_ui_desc |-> FALSE]
    /\ cr_vendor = {}
    /\ cr_docs = [d \in RequiresDocs |-> NoText]
    /\ cr_pages = <<>>
    /\ cr_answers = NoAnswers
    /\ cr_files = {}
    /\ cr_prompts = <<>>
    /\ cr_edited = FALSE

\* Lines 547-618: the workspace is prepared (the generated folders are
\* emptied), the documents and the configuration are written and the
\* framework call is sent.
CrStart ==
    /\ cr_pc = "queued"
    /\ cr_docs' = write_project_documents(sync_requires_docs(cr_docs, cr_vendor), cr_project)
    /\ cr_files' = { RequirementsPath, ConfigPath }
    /\ cr_prompts' = <<Prompt("framework", framework_prompt_text(cr_docs', cr_project))>>
    /\ cr_pc' = "await_framework"
    /\ UNCHANGED <<cr_project, cr_vendor, cr_pages, cr_answers, cr_edited>>
    /\ UNCHANGED notSourcesVars

\* The calls whose answer is kept as a text: the file written when the call
\* returns, the call sent next and where the run waits then.
TextStep(writes, call, next) == [writes |-> writes, call |-> call, next |-> next]
TextSteps ==
    [await_framework |-> TextStep({ FrameworkPath }, "insights", "await_insights"),
     await_insights |-> TextStep({}, "page_list", "await_page_list"),
     await_page_list |-> TextStep({ PageListPath }, "page_items", "await_page_items"),
     await_ui |-> TextStep({ UiDesignPath }, "frontend", "await_frontend")]

\* Lines 618-646 and 671-699: such a call returns.
CrTextReturns ==
    /\ cr_pc \in DOMAIN TextSteps
    /\ cr_files' = cr_files \cup TextSteps[cr_pc].writes
    /\ cr_prompts' = Append(cr_prompts, Prompt(TextSteps[cr_pc].call, NoText))
    /\ cr_pc' = TextSteps[cr_pc].next
    /\ UNCHANGED <<cr_project, cr_vendor, cr_docs, cr_pages, cr_answers, cr_edited>>
    /\ UNCHANGED notSourcesVars

\* Lines 646-671: extract_page_items returns and the UI call is sent.
CrPageItemsReturn ==
    /\ cr_pc = "await_page_items"
    /\ cr_pages' \in PageLists
    /\ cr_prompts' = Append(cr_prompts, Prompt("ui", ui_prompt_text(cr_docs, cr_project)))
    /\ cr_pc' = "await_ui"
    /\ UNCHANGED <<cr_project, cr_vendor, cr_docs, cr_answers, cr_files, cr_edited>>
    /\ UNCHANGED notSourcesVars

\* Lines 699-731: the frontend answer returns, its files or the fallback
\* pages are written and the database call is sent.
CrFrontendReturns ==
    /\ cr_pc = "await_frontend"
    /\ \E answer \in SourceFrontendAnswers :
         /\ cr_answers' = [cr_answers EXCEPT !.frontend = answer]
         /\ cr_files' = cr_files \cup frontend_paths(answer, cr_pages)
    /\ cr_prompts' = Append(cr_prompts, Prompt("database", NoText))
    /\ cr_pc' = "await_database"
    /\ UNCHANGED <<cr_project, cr_vendor, cr_docs, cr_pages, cr_edited>>
    /\ UNCHANGED notSourcesVars

\* Lines 731-762: the database answer returns, its files or the fallback
\* schema are written and the backend call is sent.
CrDatabaseReturns ==
    /\ cr_pc = "await_database"
    /\ \E answer \in SourceDatabaseAnswers :
         /\ cr_answers' = [cr_answers EXCEPT !.database = answer]
         /\ cr_files' = cr_files \cup database_paths(answer)
    /\ cr_prompts' = Append(cr_prompts, Prompt("backend", backend_prompt_text(cr_files')))
    /\ cr_pc' = "await_backend"
    /\ UNCHANGED <<cr_project, cr_vendor, cr_docs, cr_pages, cr_edited>>
    /\ UNCHANGED notSourcesVars

\* Lines 762-790: the backend answer returns, its files or the fallback
\* application are written and the call for the user manual is sent.
CrBackendReturns ==
    /\ cr_pc = "await_backend"
    /\ \E answer \in SourceBackendAnswers :
         /\ cr_answers' = [cr_answers EXCEPT !.backend = answer]
         /\ cr_files' = cr_files \cup backend_paths(answer)
    /\ cr_prompts' = Append(cr_prompts, Prompt("manual", NoText))
    /\ cr_pc' = "await_manual"
    /\ UNCHANGED <<cr_project, cr_vendor, cr_docs, cr_pages, cr_edited>>
    /\ UNCHANGED notSourcesVars

\* update_project (copyright_api.py lines 113-127) commits other fields
\* while the run waits for an answer.  The run holds the project as an
\* object of its session, which expires at each commit of
\* update_job_state, so the flag read at line 660 is the one stored then.
CrProjectEdited ==
    /\ cr_pc \notin { "idle", "queued" }
    /\ cr_project' \in ProjectFlags \ { cr_project }
    /\ cr_edited' = TRUE
    /\ UNCHANGED <<cr_pc, cr_vendor, cr_docs, cr_pages, cr_answers, cr_files, cr_prompts>>
    /\ UNCHANGED notSourcesVars

SourcesNext ==
    \/ CrStart \/ CrTextReturns \/ CrPageItemsReturn
    \/ CrFrontendReturns \/ CrDatabaseReturns \/ CrBackendReturns
    \/ CrProjectEdited

(***************************************************************************)
(* Specifications.                                                         *)
(***************************************************************************)
InitFrame == FrameInit /\ PlanIdle /\ LessonIdle /\ PromptIdle /\ ParseIdle /\ WriteIdle /\ JobIdle /\ PollIdle /\ WorkspaceIdle /\ TableIdle /\ StreamIdle /\ ParamsIdle /\ ExtractIdle /\ SourcesIdle

SpecFrame == InitFrame /\ [][FrameNext]_vars

InitPlan == PlanInit /\ FrameIdle /\ LessonIdle /\ PromptIdle /\ ParseIdle /\ WriteIdle /\ JobIdle /\ PollIdle /\ WorkspaceIdle /\ TableIdle /\ StreamIdle /\ ParamsIdle /\ ExtractIdle /\ SourcesIdle

SpecPlan == InitPlan /\ [][PlanNext]_vars

InitLesson == LessonInit /\ FrameIdle /\ PlanIdle /\ PromptIdle /\ ParseIdle /\ WriteIdle /\ JobIdle /\ PollIdle /\ WorkspaceIdle /\ TableIdle /\ StreamIdle /\ ParamsIdle /\ ExtractIdle /\ SourcesIdle

SpecLesson == InitLesson /\ [][LessonNext]_vars

InitPrompt == PromptInit /\ FrameIdle /\ PlanIdle /\ LessonIdle /\ ParseIdle /\ WriteIdle /\ JobIdle /\ PollIdle /\ WorkspaceIdle /\ TableIdle /\ StreamIdle /\ ParamsIdle /\ ExtractIdle /\ SourcesIdle

SpecPrompt == InitPrompt /\ [][PromptNext]_vars

InitParse == ParseInit /\ FrameIdle /\ PlanIdle /\ LessonIdle /\ PromptIdle /\ WriteIdle /\ JobIdle /\ PollIdle /\ WorkspaceIdle /\ TableIdle /\ StreamIdle /\ ParamsIdle /\ ExtractIdle /\ SourcesIdle

SpecParse == InitParse /\ [][ParseNext]_vars

InitWrite == WriteInit /\ FrameIdle /\ PlanIdle /\ LessonIdle /\ PromptIdle /\ ParseIdle /\ JobIdle /\ PollIdle /\ WorkspaceIdle /\ TableIdle /\ StreamIdle /\ ParamsIdle /\ ExtractIdle /\ SourcesIdle

SpecWrite == InitWrite /\ [][WriteNext]_vars

InitJob == JobInit /\ FrameIdle /\ PlanIdle /\ LessonIdle /\ PromptIdle /\ ParseIdle /\ WriteIdle /\ PollIdle /\ WorkspaceIdle /\ TableIdle /\ StreamIdle /\ ParamsIdle /\ ExtractIdle /\ SourcesIdle

SpecJob == InitJob /\ [][JobNext]_vars

\* The run is a task of the event loop: it is scheduled, and every call it
\* awaits returns or raises.
SpecJobFair == SpecJob /\ WF_vars(JobNext)

InitPoll == PollInit /\ FrameIdle /\ PlanIdle /\ LessonIdle /\ PromptIdle /\ ParseIdle /\ WriteIdle /\ JobIdle /\ WorkspaceIdle /\ TableIdle /\ StreamIdle /\ ParamsIdle /\ ExtractIdle /\ SourcesIdle

SpecPoll == InitPoll /\ [][PollNext]_vars

InitWorkspace == PollIdle /\ FrameIdle /\ PlanIdle /\ LessonIdle /\ PromptIdle /\ ParseIdle /\ WriteIdle /\ JobIdle /\ WorkspaceInit /\ TableIdle /\ StreamIdle /\ ParamsIdle /\ ExtractIdle /\ SourcesIdle

SpecWorkspace == InitWorkspace /\ [][WorkspaceNext]_vars

InitTable == TableInit /\ FrameIdle /\ PlanIdle /\ LessonIdle /\ PromptIdle /\ ParseIdle /\ WriteIdle /\ JobIdle /\ PollIdle /\ WorkspaceIdle /\ StreamIdle /\ ParamsIdle /\ ExtractIdle /\ SourcesIdle

SpecTable == InitTable /\ [][TableNext]_vars

InitParams == ParamsInit /\ FrameIdle /\ PlanIdle /\ LessonIdle /\ PromptIdle /\ ParseIdle /\ WriteIdle /\ JobIdle /\ PollIdle /\ WorkspaceIdle /\ TableIdle /\ StreamIdle /\ ExtractIdle /\ SourcesIdle

SpecParams == InitParams /\ [][ParamsNext]_vars

InitExtract == ExtractInit /\ FrameIdle /\ PlanIdle /\ LessonIdle /\ PromptIdle /\ ParseIdle /\ WriteIdle /\ JobIdle /\ PollIdle /\ WorkspaceIdle /\ TableIdle /\ StreamIdle /\ ParamsIdle /\ SourcesIdle

SpecExtract == InitExtract /\ [][ExtractNext]_vars

InitSources == SourcesInit /\ FrameIdle /\ PlanIdle /\ LessonIdle /\ PromptIdle /\ ParseIdle /\ WriteIdle /\ JobIdle /\ PollIdle /\ WorkspaceIdle /\ TableIdle /\ StreamIdle /\ ParamsIdle /\ ExtractIdle

SpecSources == InitSources /\ [][SourcesNext]_vars

\* The two event streams.
InitStreams ==
    \/ LessonInit /\ FrameIdle /\ PlanIdle /\ PromptIdle /\ ParseIdle /\ WriteIdle /\ JobIdle /\ PollIdle /\ WorkspaceIdle /\ TableIdle /\ StreamIdle /\ ParamsIdle /\ ExtractIdle /\ SourcesIdle
    \/ StreamInit /\ FrameIdle /\ PlanIdle /\ LessonIdle /\ PromptIdle /\ ParseIdle /\ WriteIdle /\ JobIdle /\ PollIdle /\ WorkspaceIdle /\ TableIdle /\ ParamsIdle /\ ExtractIdle /\ SourcesIdle

StreamsNext == LessonNext \/ StreamNext

SpecStreams == InitStreams /\ [][StreamsNext]_vars

\* Every LLM call of the generation pipelines: the teaching-plan call, the
\* lesson-plan and time-reallocation calls, and a call through run_prompt.
InitLLMCalls ==
    \/ PlanInit /\ FrameIdle /\ LessonIdle /\ PromptIdle /\ ParseIdle /\ WriteIdle /\ JobIdle /\ PollIdle /\ WorkspaceIdle /\ TableIdle /\ StreamIdle /\ ParamsIdle /\ ExtractIdle /\ SourcesIdle
    \/ LessonInit /\ FrameIdle /\ PlanIdle /\ PromptIdle /\ ParseIdle /\ WriteIdle /\ JobIdle /\ PollIdle /\ WorkspaceIdle /\ TableIdle /\ StreamIdle /\ ParamsIdle /\ ExtractIdle /\ SourcesIdle
    \/ PromptInit /\ FrameIdle /\ PlanIdle /\ LessonIdle /\ ParseIdle /\ WriteIdle /\ JobIdle /\ PollIdle /\ WorkspaceIdle /\ TableIdle /\ StreamIdle /\ ParamsIdle /\ ExtractIdle /\ SourcesIdle

LLMCallsNext == PlanNext \/ LessonNext \/ PromptNext

SpecLLMCalls == InitLLMCalls /\ [][LLMCallsNext]_vars

(***************************************************************************)
(* Claims about the scheduling engine.                                     *)
(***************************************************************************)
\* The (week, class index) pairs a skip_slots list names, whether or not
\* they lie in the calendar.
NamedSkipPairs(skip_slots) ==
    { <<skip_slots[i].week.v, skip_item_class_index(skip_slots[i]).v>> :
        i \in { j \in 1..Len(skip_slots) :
                  IntOk(skip_slots[j].week) /\ IntOk(skip_item_class_index(skip_slots[j])) } }

ValidFrameInput(in) ==
    /\ in.total_weeks >= 1
    /\ in.classes_per_week \in 1..7
    /\ in.first_week_classes \in 1..in.classes_per_week

\* C1: for a valid input with actual_classes >= 1 and at least actual_classes
\* available slots, build_schedule_frame returns exactly actual_classes
\* slots, numbered 1..actual_classes in list order, each in the week of the
\* iteration that produced it, and none produced by a (week, class index)
\* pair that skip_slots names.
C1_FrameFillsActualClasses ==
    (/\ f_pc = "built"
     /\ ValidFrameInput(f_in)
     /\ f_actual >= 1
     /\ f_available >= f_actual)
    => (/\ Len(f_built.schedule) = f_actual
        /\ Len(f_built.cells) = f_actual
        /\ \A i \in 1..Len(f_built.schedule) :
             /\ f_built.schedule[i].order = i
             /\ f_built.schedule[i].week = f_built.cells[i][1]
             /\ f_built.cells[i] \notin NamedSkipPairs(f_in.skip_slots))

\* A frame of two or more slots that starts after a skipped first session
\* and leaves slots unused.
C1_Witness ==
    /\ f_pc = "built"
    /\ ValidFrameInput(f_in)
    /\ f_actual >= 2
    /\ f_available > f_actual
    /\ <<1, 1>> \in NamedSkipPairs(f_in.skip_slots)
    /\ Len(f_built.schedule) = f_actual
    /\ f_built.cells[1] = <<1, 2>>

\* The capacity of a week as the specification gives it.
WeekCapacity(in, week) ==
    IF week = 1 THEN in.first_week_classes ELSE in.classes_per_week

\* The sessions of the calendar: every (week, index) within capacity.
CalendarCells(in) ==
    UNION { { <<week, index>> : index \in 1..WeekCapacity(in, week) } :
            week \in 1..in.total_weeks }

\* The function answers 0 at once.
NoCalendar(in) == in.total_weeks < 1 \/ in.classes_per_week < 1

\* C29 as stated: the count is the sum of the weeks' capacities, week 1's
\* being first_week_classes and the others' classes_per_week, minus the
\* number of distinct skip pairs that lie in the calendar; total_weeks < 1
\* or classes_per_week < 1 gives 0.
C29_CountIsStatedCapacityMinusSkips ==
    f_pc \in { "counted", "built" } =>
        /\ NoCalendar(f_in) => f_available = 0
        /\ ~NoCalendar(f_in) =>
             f_available = Cardinality(CalendarCells(f_in))
                           - Cardinality(CalendarCells(f_in) \cap NamedSkipPairs(f_in.skip_slots))

\* The capacity of a week as the functions use it: classes_per_week brought
\* into 1..7 and first_week_classes brought into 1..(that value).
UsedCapacity(in, week) ==
    LET per_week == IF in.classes_per_week > 7 THEN 7
                    ELSE IF in.classes_per_week < 1 THEN 1 ELSE in.classes_per_week
        first_week == IF in.first_week_classes > per_week THEN per_week
                      ELSE IF in.first_week_classes < 1 THEN 1 ELSE in.first_week_classes
    IN  IF week = 1 THEN first_week ELSE per_week

\* The sessions of the calendar the functions use.
UsedCells(in) ==
    UNION { { <<week, index>> : index \in 1..UsedCapacity(in, week) } :
            week \in 1..in.total_weeks }

\* C29, amended: for every input, total_weeks < 1 or classes_per_week < 1
\* gives 0, and otherwise the count is the sum of the weeks' capacities
\* after the two values are brought into range, minus the number of
\* distinct skip pairs that lie in that calendar, so that skip pairs out of
\* range and repeated skip pairs do not change the count; for a valid input
\* the capacities are the given values.
C29_CountIsCapacityMinusDistinctSkips ==
    f_pc \in { "counted", "built" } =>
        /\ NoCalendar(f_in) => f_available = 0
        /\ ~NoCalendar(f_in) =>
             f_available = Cardinality(UsedCells(f_in))
                           - Cardinality(UsedCells(f_in) \cap NamedSkipPairs(f_in.skip_slots))
        /\ ValidFrameInput(f_in) =>
             f_available = Cardinality(CalendarCells(f_in))
                           - Cardinality(CalendarCells(f_in) \cap NamedSkipPairs(f_in.skip_slots))

\* With first_week_classes = 0 week 1 counted one session, and a skip list
\* naming the same session of week 2 twice took one slot off the count.
C29_Witness ==
    /\ f_pc = "counted"
    /\ f_in.total_weeks = 2
    /\ f_in.classes_per_week = 2
    /\ f_in.first_week_classes = 0
    /\ Len(f_in.skip_slots) = 2
    /\ f_in.skip_slots[1] = f_in.skip_slots[2]
    /\ NamedSkipPairs(f_in.skip_slots) = { <<2, 1>> }
    /\ f_available = 2

\* The number of slots of the built frame that lie in a week.
SlotsInWeek(week) ==
    Cardinality({ i \in 1..Len(f_built.schedule) : f_built.schedule[i].week = week })

\* The skip pairs of a week that lie in the calendar as stated.
SkipsInWeek(in, week) ==
    Cardinality({ cell \in CalendarCells(in) \cap NamedSkipPairs(in.skip_slots) :
                    cell[1] = week })

\* The skip pairs of a week that lie in the calendar the functions use.
UsedSkipsInWeek(in, week) ==
    Cardinality({ cell \in UsedCells(in) \cap NamedSkipPairs(in.skip_slots) :
                    cell[1] = week })

LastWeekUsed == f_built.schedule[Len(f_built.schedule)].week

\* The weeks of the built frame are non-decreasing along order and lie in
\* 1..total_weeks.
WeeksInOrder ==
    \A i \in 1..Len(f_built.schedule) :
        /\ f_built.schedule[i].week \in 1..f_in.total_weeks
        /\ \A j \in i..Len(f_built.schedule) :
             f_built.schedule[i].week <= f_built.schedule[j].week

\* C30 as stated: in every frame returned the weeks are non-decreasing
\* along order and lie in 1..total_weeks, week 1 holds at most
\* first_week_classes slots and any other week at most classes_per_week,
\* and a week holds fewer slots than its capacity minus its skips only if
\* it is the last week used.
C30_FrameRespectsStatedCapacity ==
    f_pc = "built" =>
        /\ WeeksInOrder
        /\ \A week \in 1..f_in.total_weeks :
             /\ SlotsInWeek(week) <= WeekCapacity(f_in, week)
             /\ (/\ f_built.schedule # <<>>
                 /\ week <= LastWeekUsed
                 /\ SlotsInWeek(week) < WeekCapacity(f_in, week) - SkipsInWeek(f_in, week))
                => week = LastWeekUsed

\* C30, amended: in every frame returned, for any input, the weeks are
\* non-decreasing along order and lie in 1..total_weeks, no week holds
\* more slots than its capacity after the two values are brought into
\* range, and a week up to the last one used holds fewer slots than that
\* capacity minus its skips only if it is the last week used; for a valid
\* input the capacities are the given values.
C30_FrameRespectsWeeklyCapacity ==
    f_pc = "built" =>
        /\ WeeksInOrder
        /\ \A week \in 1..f_in.total_weeks :
             /\ SlotsInWeek(week) <= UsedCapacity(f_in, week)
             /\ (/\ f_built.schedule # <<>>
                 /\ week <= LastWeekUsed
                 /\ SlotsInWeek(week) < UsedCapacity(f_in, week) - UsedSkipsInWeek(f_in, week))
                => week = LastWeekUsed
        /\ ValidFrameInput(f_in) =>
             \A week \in 1..f_in.total_weeks :
                 /\ UsedCapacity(f_in, week) = WeekCapacity(f_in, week)
                 /\ UsedSkipsInWeek(f_in, week) = SkipsInWeek(f_in, week)

\* A frame for first_week_classes = 3 and classes_per_week = 2: week 1
\* holds its two sessions but for a skipped one, and the last week is
\* filled in part.
C30_Witness ==
    /\ f_pc = "built"
    /\ f_in.classes_per_week = 2
    /\ f_in.first_week_classes = 3
    /\ UsedSkipsInWeek(f_in, 1) = 1
    /\ SlotsInWeek(1) = 1
    /\ LastWeekUsed = 2
    /\ SlotsInWeek(2) < UsedCapacity(f_in, 2) - UsedSkipsInWeek(f_in, 2)

(***************************************************************************)
(* Claims about generate_teaching_plan_schedule.                           *)
(***************************************************************************)
PlanActual(in) == PyFloorDiv(in.total_hours, in.hour_per_class)

PlanDiff(in) ==
    count_available_slots(in.total_weeks, in.classes_per_week,
                          in.first_week_classes, in.skip_slots) - PlanActual(in)

Rejected == tp_pc = "raised" /\ tp_error \in { "capacity", "shortfall", "slack" }

\* C2 as stated: a difference that is negative or above 6 ends in a
\* rejection with no LLM request, and a difference in 0..6 has the request
\* issued.
C2_RequestIffSlackInRange ==
    (tp_pc \notin { "idle", "call" } /\ tp_in.hour_per_class # 0)
    => (/\ (PlanDiff(tp_in) < 0 \/ PlanDiff(tp_in) > 6)
             => (Rejected /\ tp_llm_calls = 0)
        /\ PlanDiff(tp_in) \in 0..6 => tp_llm_calls = 1)

\* C2, amended: a difference that is negative or above 6 ends in a rejection
\* with no LLM request; a difference in 0..6 has the request issued when
\* also actual_classes <= total_weeks * classes_per_week, the check made
\* first, and is rejected with no LLM request otherwise.
C2_SlackGate ==
    (tp_pc \notin { "idle", "call" } /\ tp_in.hour_per_class # 0)
    => (/\ (PlanDiff(tp_in) < 0 \/ PlanDiff(tp_in) > 6)
             => (Rejected /\ tp_llm_calls = 0)
        /\ (/\ PlanDiff(tp_in) \in 0..6
            /\ PlanActual(tp_in) <= tp_in.total_weeks * tp_in.classes_per_week)
             => tp_llm_calls = 1
        /\ (/\ PlanDiff(tp_in) \in 0..6
            /\ PlanActual(tp_in) > tp_in.total_weeks * tp_in.classes_per_week)
             => (Rejected /\ tp_llm_calls = 0))

\* The request is issued with the difference at the limit of 6.
C2_Witness ==
    /\ tp_pc = "awaiting"
    /\ PlanDiff(tp_in) = 6
    /\ tp_llm_calls = 1
    /\ Len(tp_frame) >= 2

\* C3 as stated: for the example input actual_classes is 18, the available
\* slots are 35, the scheduling step is not rejected and the frame starts
\* with {order 1, week 1}, {order 2, week 2}.
C3_ExampleIsScheduled ==
    (tp_pc \notin { "idle", "call" } /\ tp_in \in { ExamplePlanInput(b) : b \in BOOLEAN })
    => (/\ tp_actual = 18
        /\ tp_available = 35
        /\ ~Rejected
        /\ Len(tp_frame) >= 2
        /\ tp_frame[1] = [order |-> 1, week |-> 1]
        /\ tp_frame[2] = [order |-> 2, week |-> 2])

\* C3, amended: for the example input actual_classes is 18 and the
\* available slots are 35; the difference of 17 is above 6, so the call is
\* rejected before any LLM request; build_schedule_frame on the same input
\* returns 18 slots starting with {order 1, week 1}, {order 2, week 2}.
C3_ExampleIsRejectedForSlack ==
    (tp_pc \notin { "idle", "call" } /\ tp_in \in { ExamplePlanInput(b) : b \in BOOLEAN })
    => (/\ tp_actual = 18
        /\ tp_available = 35
        /\ tp_pc = "raised"
        /\ tp_error = "slack"
        /\ tp_llm_calls = 0
        /\ LET frame == build_schedule_frame(tp_in.total_weeks, tp_in.classes_per_week,
                                             tp_actual, tp_in.first_week_classes,
                                             tp_in.skip_slots)
           IN  /\ Len(frame) = 18
               /\ frame[1] = [order |-> 1, week |-> 1]
               /\ frame[2] = [order |-> 2, week |-> 2])

\* The call on the example input has ended.
C3_Witness ==
    /\ tp_in = ExamplePlanInput(TRUE)
    /\ tp_pc = "raised"
    /\ tp_available - tp_actual = 17

(***************************************************************************)
(* Claims about the lesson-plan pipeline.                                  *)
(***************************************************************************)
RECURSIVE SumTimes(_)
SumTimes(items) ==
    IF items = <<>> THEN 0 ELSE Head(items).time.v + SumTimes(Tail(items))

\* The time-budget law of a record for a session of `hours` hours.
TimeBudgetLaw(data, hours) ==
    /\ data.review_time.k = "int"
    /\ data.review_time.v \in 5..15
    /\ data.new_lessons.k = "list"
    /\ Len(data.new_lessons.items) \in 3..5
    /\ \A i \in 1..Len(data.new_lessons.items) :
         /\ data.new_lessons.items[i].k = "dict"
         /\ data.new_lessons.items[i].time.k = "int"
    /\ hours.k = "int"
    /\ data.review_time.v + SumTimes(data.new_lessons.items) + 15 = hours.v * 40

\* C4: every record that reaches the rendering stage, and so every record
\* rendered, saved and returned in the completed event, satisfies
\* review_time + sum(new_lessons[i].time) + 15 = hours * 40 with review_time
\* in 5..15 and 3 to 5 new_lessons items, whatever the first response and
\* the corrections were.
C4_RenderedRecordSatisfiesTimeBudget ==
    /\ lp_pc \in { "generated", "rendering", "completed" } => TimeBudgetLaw(lp_data, lp_hours)
    /\ lp_rendered # NoData => TimeBudgetLaw(lp_rendered, lp_hours)
    /\ lp_saved # NoData => TimeBudgetLaw(lp_saved, lp_hours)
    /\ "completed" \in { lp_events[i].stage : i \in 1..Len(lp_events) } =>
         /\ lp_saved = lp_data
         /\ TimeBudgetLaw(lp_saved, lp_hours)

\* A record that failed the first validation was corrected, rendered and saved.
C4_Witness ==
    /\ lp_pc = "completed"
    /\ lp_repairs >= 1
    /\ lp_saved = lp_data
    /\ lp_saved # NoData

\* C5: the reconciliation loop makes no repair call when the first
\* validation passes; otherwise it makes repair calls one at a time, each
\* after a failed validation, stops at the first validation that passes and
\* makes at most 2; when the validation after the second repair fails the
\* run ends in the error outcome with the validator's last reason, and
\* nothing is rendered or saved.
C5_ReconciliationLoopIsBounded ==
    /\ lp_repairs <= 2
    /\ Len(lp_checks) <= 3
    /\ (Len(lp_checks) >= 1 /\ lp_checks[1]) => lp_repairs = 0
    /\ \A i \in 1..Len(lp_checks) : lp_checks[i] => i = Len(lp_checks)
    /\ lp_repairs <= Len(lp_checks)
    /\ Len(lp_checks) <= lp_repairs + 1
    /\ lp_pc = "await_repair" =>
         /\ lp_repairs = Len(lp_checks)
         /\ ~lp_checks[Len(lp_checks)]
    /\ (Len(lp_checks) >= 1 /\ lp_checks[Len(lp_checks)]) =>
         /\ lp_repairs = Len(lp_checks) - 1
         /\ lp_pc \in { "generated", "rendering", "completed", "error" }
    /\ (Len(lp_checks) = 3 /\ ~lp_checks[3]) =>
         /\ lp_pc = "error"
         /\ lp_repairs = 2
         /\ lp_error = LessonError("validation",
                                   validate_time_allocation(lp_data, lp_hours).reason)
         /\ lp_error.reason # "ok"
         /\ lp_events[Len(lp_events)].stage = "error"
         /\ lp_rendered = NoData
         /\ lp_saved = NoData
    /\ lp_error.kind = "validation" => (Len(lp_checks) = 3 /\ ~lp_checks[3])

\* The validation after the second repair failed and the run ended in error.
C5_Witness ==
    /\ lp_pc = "error"
    /\ lp_checks = <<FALSE, FALSE, FALSE>>
    /\ lp_repairs = 2
    /\ lp_error.kind = "validation"

\* What the validator is said to accept.
ClaimAccepts(data, hours) ==
    /\ hours.k = "int"
    /\ hours.v > 0
    /\ TimeBudgetLaw(data, hours)
    /\ \A i \in 1..Len(data.new_lessons.items) : data.new_lessons.items[i].time.v > 0

\* The record of lp_data is the one the last validation judged.
LastValidated ==
    /\ Len(lp_checks) >= 1
    /\ ~(lp_pc = "error" /\ lp_error.reason = "merge")

\* C10: validate_time_allocation(record, hours) succeeds if and only if
\* hours is a positive integer, review_time is an integer in 5..15,
\* new_lessons is a list of 3 to 5 objects each with a positive integer
\* time, and review_time + sum(time) + 10 + 5 = hours * 40; and its verdict
\* is the one the pipeline acts on.
C10_ValidatorAcceptsExactlyTheLaw ==
    LastValidated =>
        /\ lp_ok = validate_time_allocation(lp_data, lp_hours).ok
        /\ lp_ok <=> ClaimAccepts(lp_data, lp_hours)
        /\ lp_ok <=> (lp_reason = "ok")

\* The example: hours = 4, review_time = 10, times 50, 60, 25 is accepted.
C10_Witness ==
    /\ lp_hours = IntV(4)
    /\ lp_data = overwrite_system_fields(
                     LessonData(IntV(4), IntV(10),
                                ListV(<<DictItem(IntV(50)), DictItem(IntV(60)),
                                        DictItem(IntV(25))>>)),
                     lp_system)
    /\ lp_checks = <<TRUE>>
    /\ lp_ok

(***************************************************************************)
(* Claims about run_prompt and the LLM calls.                              *)
(***************************************************************************)
\* An attempt that failed with a rate-limit-classified error: the
\* RateLimitError class, a status of 429 on the error or on its response,
\* or a message of the rate-limit vocabulary.
RateLimitClassified(completion) ==
    /\ completion.k = "raises"
    /\ \/ completion.error.cls = "RateLimitError"
       \/ completion.error.status_code = 429
       \/ completion.error.response_status = 429
       \/ completion.error.text \in { "Rate limit reached", "Too Many Requests", "HTTP 429" }

OtherFailure(completion) ==
    completion.k = "raises" /\ ~RateLimitClassified(completion)

RateLimitFailure == Raised("rate_limit", NoApiError)

\* C6: no attempt is made after an attempt that failed with a
\* rate-limit-classified error: the call raises the rate-limit failure at
\* once, without a wait, whatever the attempt number, and not the generic
\* call-failed failure; so an adapter that always raises a rate-limit error
\* is called exactly once.
C6_RateLimitEndsTheCall ==
    /\ \A i \in 1..Len(rp_trace) :
         RateLimitClassified(rp_trace[i]) =>
             /\ i = Len(rp_trace)
             /\ rp_pc = "raised"
             /\ rp_result = RateLimitFailure
             /\ Len(rp_sleeps) = i - 1
    /\ rp_result = RateLimitFailure => RateLimitClassified(rp_trace[Len(rp_trace)])

\* The first attempt raised a rate-limit error and the call ended there.
C6_Witness ==
    /\ Len(rp_trace) = 1
    /\ RateLimitClassified(rp_trace[1])
    /\ rp_pc = "raised"
    /\ rp_result = RateLimitFailure

\* The failure raised after the last attempt failed with `error`.
FailureDerivedFrom(error) ==
    IF error.cls = "JSONDecodeError" \/ error.text = "Expecting value"
    THEN Raised("bad_response", NoApiError)
    ELSE Raised("call_failed", error)

\* C7: run_prompt makes at most 3 attempts; when every attempt fails with
\* an error that is not rate-limit-classified it makes exactly 3, waits
\* 1.5 s and 3 s between consecutive attempts and not after the last, and
\* raises a failure derived from the last attempt's error; the first
\* attempt that succeeds ends the call and returns its text.
C7_AtMostThreeAttempts ==
    /\ Len(rp_trace) <= 3
    /\ \A i \in 1..Len(rp_sleeps) : rp_sleeps[i] = 3 * i
    /\ rp_pc = "sleeping" => (Len(rp_sleeps) = Len(rp_trace) /\ Len(rp_trace) < 3)
    /\ rp_pc \in { "calling", "returned", "raised" } => Len(rp_sleeps) = rp_attempt
    /\ rp_pc \in { "returned", "raised" } => Len(rp_sleeps) = Len(rp_trace) - 1
    /\ (rp_pc = "raised" /\ \A i \in 1..Len(rp_trace) : OtherFailure(rp_trace[i])) =>
         /\ Len(rp_trace) = 3
         /\ rp_sleeps = <<3, 6>>
         /\ rp_result = FailureDerivedFrom(rp_trace[3].error)
    /\ \A i \in 1..Len(rp_trace) :
         rp_trace[i].k # "raises" =>
             /\ i = Len(rp_trace)
             /\ rp_pc = "returned"
             /\ rp_result = Returned(strip(rp_trace[i].text))
    /\ rp_pc = "returned" => rp_trace[Len(rp_trace)].k # "raises"

\* Three attempts failed with errors that are not rate-limit-classified.
C7_Witness ==
    /\ rp_pc = "raised"
    /\ Len(rp_trace) = 3
    /\ \A i \in 1..3 : OtherFailure(rp_trace[i])
    /\ rp_result.k = "call_failed"

\* C9: when the completion API answers with no choices, run_prompt returns
\* the empty string on that attempt: it does not raise and makes no
\* further attempt.
C9_NoChoicesReturnsEmptyString ==
    \A i \in 1..Len(rp_trace) :
        rp_trace[i] = NoChoices =>
            /\ i = Len(rp_trace)
            /\ rp_pc = "returned"
            /\ rp_result = Returned(<<>>)
            /\ rp_attempt = i - 1

\* The second attempt was answered with no choices.
C9_Witness ==
    /\ Len(rp_trace) = 2
    /\ rp_trace[2] = NoChoices
    /\ rp_pc = "returned"

\* A completion that is empty.
EmptyCompletion(completion) ==
    \/ completion.k \in { "no_choices", "no_content" }
    \/ completion.k = "content" /\ \A i \in 1..Len(completion.text) : completion.text[i] \in Whitespace

ParseFailures == { "EmptyCompletion", "JSONDecodeError" }

\* C8 as stated: an empty completion, or one that is not JSON, of an LLM
\* call of a pipeline is tried again until 3 attempts were made before the
\* run is failed, for the teaching-plan, the lesson-plan and the
\* time-reallocation calls as for the calls through run_prompt.
C8_ParseFailureIsRetriedToBudget ==
    /\ (tp_pc = "raised" /\ tp_error \in ParseFailures) => tp_llm_calls = 3
    /\ (lp_pc = "error" /\ lp_error.kind \in ParseFailures /\ lp_error.reason = "generate") =>
         lp_gen_calls = 3
    /\ (rp_pc \in { "returned", "raised" } /\ EmptyCompletion(rp_trace[Len(rp_trace)])) =>
         Len(rp_trace) = 3

\* C8, amended: the teaching-plan and the lesson-plan call are made once,
\* and each time-reallocation call once per repair: an empty or non-JSON
\* completion fails the run after that one attempt.  In run_prompt only an
\* attempt that raised an error not rate-limit-classified is followed by
\* another, up to 3 attempts; an empty completion is returned as the empty
\* string by the attempt that received it.
C8_OnlyRaisedErrorsAreRetried ==
    /\ tp_llm_calls <= 1
    /\ lp_gen_calls <= 1
    /\ (tp_pc = "raised" /\ tp_error \in ParseFailures) => tp_llm_calls = 1
    /\ (lp_pc = "error" /\ lp_error.kind \in ParseFailures /\ lp_error.reason = "generate") =>
         /\ lp_gen_calls = 1
         /\ lp_repairs = 0
         /\ lp_saved = NoData
    /\ (lp_pc = "error" /\ lp_error.kind \in ParseFailures /\ lp_error.reason = "regenerate") =>
         /\ lp_repairs = Len(lp_checks)
         /\ lp_repairs <= 2
         /\ lp_saved = NoData
    /\ Len(rp_trace) <= 3
    /\ \A i \in 1..Len(rp_trace) :
         /\ i < Len(rp_trace) => OtherFailure(rp_trace[i])
         /\ EmptyCompletion(rp_trace[i]) =>
              /\ i = Len(rp_trace)
              /\ rp_pc = "returned"
              /\ rp_result = Returned(<<>>)

\* The lesson-plan call returned an empty completion and the run failed
\* after that single call.
C8_Witness ==
    /\ lp_pc = "error"
    /\ lp_error = LessonError("EmptyCompletion", "generate")
    /\ lp_gen_calls = 1

(***************************************************************************)
(* Claims about the validator's reasons and the merge step.                *)
(***************************************************************************)
HoursRuleBroken(hours) == ~(hours.k = "int" /\ hours.v > 0)
ReviewRuleBroken(data) == ~(data.review_time.k = "int" /\ data.review_time.v \in 5..15)
CountRuleBroken(data) ==
    ~(data.new_lessons.k = "list" /\ Len(data.new_lessons.items) \in 3..5)
ItemNotObject(item) == item.k # "dict"
ItemTimeBroken(item) == item.k = "dict" /\ ~(item.time.k = "int" /\ item.time.v > 0)
SumRuleBroken(data, hours) ==
    data.review_time.v + SumTimes(data.new_lessons.items) + 10 + 5 # hours.v * 40

\* The first violated rule when each rule is taken over the whole record.
FixedOrderReason(data, hours) ==
    LET items == data.new_lessons.items
    IN  IF HoursRuleBroken(hours) THEN "invalid_hours"
        ELSE IF ReviewRuleBroken(data) THEN "review_time_range"
        ELSE IF CountRuleBroken(data) THEN "new_lessons_count"
        ELSE IF \E i \in 1..Len(items) : ItemNotObject(items[i]) THEN "non_object_item"
        ELSE IF \E i \in 1..Len(items) : ItemTimeBroken(items[i]) THEN "time_not_positive_int"
        ELSE IF SumRuleBroken(data, hours) THEN "sum_mismatch"
        ELSE "ok"

\* The same with the two rules on items decided by the first item that
\* breaks either of them.
ItemByItemReason(data, hours) ==
    LET items == data.new_lessons.items
        bad == { i \in 1..Len(items) : ItemNotObject(items[i]) \/ ItemTimeBroken(items[i]) }
    IN  IF HoursRuleBroken(hours) THEN "invalid_hours"
        ELSE IF ReviewRuleBroken(data) THEN "review_time_range"
        ELSE IF CountRuleBroken(data) THEN "new_lessons_count"
        ELSE IF bad # {}
             THEN LET first == CHOOSE i \in bad : \A j \in bad : i <= j
                  IN  IF ItemNotObject(items[first]) THEN "non_object_item"
                      ELSE "time_not_positive_int"
        ELSE IF SumRuleBroken(data, hours) THEN "sum_mismatch"
        ELSE "ok"

\* C11 as stated: the validator reports the first violated rule in the
\* order invalid hours, review_time out of range, new_lessons count out of
\* range, non-object item, non-positive time, sum mismatch.
C11_ReasonIsFirstRuleInFixedOrder ==
    LastValidated => lp_reason = FixedOrderReason(lp_data, lp_hours)

\* C11, amended: the validator reports the first violated rule in the order
\* invalid hours, review_time out of range, new_lessons count out of range,
\* then the items one by one (the first item that is not an object or whose
\* time is not a positive integer gives the reason), then sum mismatch; a
\* record with 2 items and a valid review_time fails with the count reason
\* whatever its times sum to.
C11_ReasonIsFirstRuleItemByItem ==
    LastValidated =>
        /\ lp_reason = ItemByItemReason(lp_data, lp_hours)
        /\ (/\ ~HoursRuleBroken(lp_hours)
            /\ ~ReviewRuleBroken(lp_data)
            /\ lp_data.new_lessons.k = "list"
            /\ Len(lp_data.new_lessons.items) = 2) => lp_reason = "new_lessons_count"

\* A record with 2 items, a valid review_time and times that add up to the
\* session's minutes was refused for its count.
C11_Witness ==
    /\ LastValidated
    /\ ~HoursRuleBroken(lp_hours)
    /\ ~ReviewRuleBroken(lp_data)
    /\ lp_data.new_lessons.k = "list"
    /\ Len(lp_data.new_lessons.items) = 2
    /\ \A i \in 1..2 : ~ItemNotObject(lp_data.new_lessons.items[i])
                       /\ ~ItemTimeBroken(lp_data.new_lessons.items[i])
    /\ ~SumRuleBroken(lp_data, lp_hours)
    /\ lp_reason = "new_lessons_count"

\* A value of the record after the merge is the one before it or an integer.
KeptOrInteger(before, after) == after = before \/ after.k = "int"

\* C12: in the merge step review_time and each new_lessons[i].time are
\* overwritten only by an integer of the correction response; for any
\* correction response (missing keys, shorter list, wrongly typed values,
\* elements that are not objects) every other value of the record is left
\* unchanged and the merge does not fail the run.
C12_MergeNeverFailsTheRun ==
    [][ lp_pc = "await_repair" =>
          /\ ~(lp_pc' = "error" /\ lp_error'.reason = "merge")
          /\ lp_data'.hours = lp_data.hours
          /\ KeptOrInteger(lp_data.review_time, lp_data'.review_time)
          /\ lp_data'.new_lessons.k = lp_data.new_lessons.k
          /\ Len(lp_data'.new_lessons.items) = Len(lp_data.new_lessons.items)
          /\ \A i \in 1..Len(lp_data.new_lessons.items) :
               /\ lp_data'.new_lessons.items[i].k = lp_data.new_lessons.items[i].k
               /\ KeptOrInteger(lp_data.new_lessons.items[i].time,
                                lp_data'.new_lessons.items[i].time) ]_vars

\* A correction whose new_lessons holds an element that is not an object
\* ended the run in the merge step.
C12_Witness ==
    /\ lp_pc = "error"
    /\ lp_error = LessonError("AttributeError", "merge")
    /\ lp_rendered = NoData

(***************************************************************************)
(* Claims about the multi-file-block parser.                               *)
(***************************************************************************)
\* A dict as the set of its items.
Items(entries) == { <<entries[i].path, entries[i].content>> : i \in 1..Len(entries) }

Keys(entries) == { entries[i].path : i \in 1..Len(entries) }

\* A content without the empty lines that surround it.
TrimEmptyLines(content) ==
    LET full == { i \in 1..Len(content) : content[i].line # EmptyLine }
    IN  IF full = {} THEN <<>>
        ELSE LET first == CHOOSE i \in full : \A j \in full : i <= j
                 last == CHOOSE i \in full : \A j \in full : j <= i
             IN  [i \in 1..(last - first + 1) |->
                    Seg(content[first + i - 1].line,
                        IF i = last - first + 1 THEN "" ELSE content[first + i - 1].end)]

\* A content with a line feed for each of its line boundaries.
WithLineFeeds(content) ==
    [i \in 1..Len(content) |->
       Seg(content[i].line, IF content[i].end = "" THEN "" ELSE "LF")]

RelativeNoParent(path) ==
    /\ path.slashes = 0
    /\ \A i \in 1..Len(path.segs) : path.segs[i] # ".."

\* A line that declares a file.
DeclaresFile(line) ==
    /\ line.mark \in { "### FILE:", "###file :", "###WENJIAN:" }
    /\ line.body # EmptyStr
    /\ line.body # PathStr(TRUE, 0, <<>>)

Trimmed(path) == PathStr(FALSE, path.slashes, path.segs)

\* C13 as stated: for any mapping whose paths are relative and have no
\* '..' segment, parsing its text returns the mapping with each content
\* trimmed of the empty lines around it.
C13_RoundTripOfAnyMapping ==
    (/\ pf_pc = "returned"
     /\ \A i \in 1..Len(pf_map) : RelativeNoParent(pf_map[i].path)) =>
        Items(pf_files) =
            { <<pf_map[i].path, TrimEmptyLines(pf_map[i].content)>> : i \in 1..Len(pf_map) }

\* A path that can be declared on one line and is read back as written: it
\* is not empty, has no white space around it and holds no line boundary.
PlainPath(path) ==
    /\ path.ws = FALSE
    /\ path # EmptyStr
    /\ path # BrokenPath

\* C13, amended: for the mappings whose paths are also plain and whose
\* contents hold no line that declares a file, parsing the text returns
\* the mapping with, in each content, a line feed for every line boundary
\* and the empty lines around it trimmed; a content whose boundaries are
\* line feeds comes back trimmed and otherwise as it was.
C13_RoundTripOfPlainMapping ==
    (/\ pf_pc = "returned"
     /\ \A i \in 1..Len(pf_map) :
          /\ RelativeNoParent(pf_map[i].path)
          /\ PlainPath(pf_map[i].path)
          /\ \A j \in 1..Len(pf_map[i].content) :
               ~DeclaresFile(pf_map[i].content[j].line)) =>
        /\ Items(pf_files) =
             { <<pf_map[i].path, TrimEmptyLines(WithLineFeeds(pf_map[i].content))>> :
                 i \in 1..Len(pf_map) }
        /\ (\A i \in 1..Len(pf_map) : WithLineFeeds(pf_map[i].content) = pf_map[i].content) =>
             Items(pf_files) =
               { <<pf_map[i].path, TrimEmptyLines(pf_map[i].content)>> : i \in 1..Len(pf_map) }

\* A mapping of two files, the first with a CR LF boundary in its text and
\* the second with an empty line after its text, was parsed back with a
\* line feed in the first and the second trimmed.
C13_Witness ==
    /\ pf_pc = "returned"
    /\ Len(pf_map) = 2
    /\ \A i \in 1..2 : RelativeNoParent(pf_map[i].path) /\ PlainPath(pf_map[i].path)
    /\ pf_map[1].content = <<Seg(TextLine, "CRLF"), Seg(TextLine, "")>>
    /\ pf_map[2].content = Str(<<TextLine, EmptyLine>>)
    /\ Items(pf_files) =
           { <<pf_map[1].path, Str(<<TextLine, TextLine>>)>>,
             <<pf_map[2].path, Str(<<TextLine>>)>> }

\* The paths the text declares.
DeclaredPaths ==
    { Trimmed(pf_text[i].line.body) :
        i \in { k \in 1..Len(pf_text) : DeclaresFile(pf_text[k].line) } }

UnsafePath(path) ==
    path.slashes > 0 \/ \E i \in 1..Len(path.segs) : path.segs[i] = ".."

\* C14 as stated: the mapping the parser returns has no key that is an
\* absolute path and no key with a '..' segment.
C14_ParserDropsUnsafePaths ==
    pf_pc = "returned" => \A k \in Keys(pf_files) : ~UnsafePath(k)

\* C14, amended: the keys of the mapping the parser returns are exactly
\* the declared paths, trimmed of white space, absolute paths and paths
\* with a '..' segment included: the parser drops none.
C14_ParserKeepsEveryDeclaredPath ==
    pf_pc = "returned" => Keys(pf_files) = DeclaredPaths

\* The parser returned an absolute key and a key with a '..' segment.
C14_Witness ==
    /\ pf_pc = "returned"
    /\ \E k \in Keys(pf_files) : k.slashes > 0
    /\ \E k \in Keys(pf_files) : k.slashes = 0 /\ UnsafePath(k)

(***************************************************************************)
(* Claims about the workspace writer.                                      *)
(***************************************************************************)
\* The depth below root that the segments of a target lead to, or -1 once
\* they have led above root.
RECURSIVE DepthBelowRoot(_, _)
DepthBelowRoot(segs, depth) ==
    IF depth < 0 THEN -1
    ELSE IF segs = <<>> THEN depth
    ELSE IF Head(segs) = ".." THEN DepthBelowRoot(Tail(segs), depth - 1)
    ELSE IF Head(segs) = "." THEN DepthBelowRoot(Tail(segs), depth)
    ELSE DepthBelowRoot(Tail(segs), depth + 1)

UnderRoot(target) == DepthBelowRoot(target, 0) >= 0

HasParentSegment(key) == \E i \in 1..Len(key.segs) : key.segs[i] = ".."

\* No file is written outside root, and an entry that is skipped does not
\* end the call: the entries after it are dealt with.
WritesStayUnderRoot ==
    /\ \A f \in sw_fs : UnderRoot(f)
    /\ \A i \in 1..Len(sw_log) :
         /\ sw_log[i].key = sw_map[i].path
         /\ sw_log[i].result = "written" =>
              (UnderRoot(sw_log[i].target) /\ sw_log[i].target \in sw_fs)
         /\ sw_log[i].result = "skipped" => sw_pc # "raised" \/ i < Len(sw_log)
    /\ sw_pc = "returned" => Len(sw_log) = Len(sw_map)
    /\ sw_pc = "raised" => sw_log[Len(sw_log)].result = "raised"

Terminal == { "completed", "failed" }

\* One step of the run changes the job's status only along `allowed`, and
\* leaves the status, stage and progress of a terminal job alone.
StatusStep(allowed) ==
    /\ cj_job'.status # cj_job.status => <<cj_job.status, cj_job'.status>> \in allowed
    /\ cj_job.status \in Terminal =>
         /\ cj_job'.status = cj_job.status
         /\ cj_job'.stage = cj_job.stage
         /\ cj_job'.progress = cj_job.progress

\* C16, as stated: a copyright job's status changes only along
\* Queued -> Running, Running -> Completed and Running -> Failed, and a
\* Completed or Failed job's status, stage and progress never change again.
C16_StatusFollowsThreeTransitions ==
    [][StatusStep({ <<"queued", "running">>, <<"running", "completed">>,
                    <<"running", "failed">> })]_vars

\* C16, amended: a copyright job's status changes only along
\* Queued -> Running, Queued -> Failed (a configuration the run refuses),
\* Running -> Completed and Running -> Failed, and a Completed or Failed
\* job's status, stage and progress never change again.
C16_StatusFollowsFourTransitions ==
    [][StatusStep({ <<"queued", "running">>, <<"queued", "failed">>,
                    <<"running", "completed">>, <<"running", "failed">> })]_vars

\* A queued job was marked failed without ever running.
C16_Witness ==
    /\ cj_pc = "ended"
    /\ Len(cj_updates) = 2
    /\ cj_updates[1].status = "queued"
    /\ cj_updates[2].status = "failed"
    /\ cj_job = cj_updates[2]

\* C17: for every run whose job, project and user records exist, when every
\* call the run awaits returns or raises, the job eventually is Completed
\* or Failed; whatever exception is raised at whichever stage after the job
\* became Running, the job then has status Failed, and a Running job never
\* stays Running.
C17_RunEndsCompletedOrFailed ==
    /\ (cj_pc = "queued" /\ cj_in.missing = "") ~> (cj_job.status \in Terminal)
    /\ (cj_job.status = "running") ~> (cj_job.status \in Terminal)
    /\ [](cj_raised # "" => cj_job.status = "failed")
    /\ [](cj_pc = "ended" => cj_job.status # "running")

\* The run was cancelled in a call of run_prompt and has ended with the
\* job still Running.
C17_Witness ==
    /\ cj_pc = "ended"
    /\ cj_raised = "CancelledError"
    /\ cj_job.status = "running"
    /\ cj_job.stage = "generating"

\* The progress reported by the update before the last one.
ProgressBeforeLastUpdate == cj_updates[Len(cj_updates) - 1].progress

\* C18, as stated: a run that succeeded left progress 100, and a run that
\* failed left status Failed and the progress reported before the failure.
C18_FailureKeepsLastProgress ==
    cj_pc = "ended" =>
        /\ cj_job.status = "completed" => cj_job.progress = 100
        /\ cj_job.status = "failed" => cj_job.progress = ProgressBeforeLastUpdate

\* C18, amended: a run that succeeded left progress 100, and a run that
\* failed left status Failed and progress 0, whatever progress had been
\* reported before the failure.
C18_FailureResetsProgress ==
    cj_pc = "ended" =>
        /\ cj_job.status = "completed" => cj_job.progress = 100
        /\ cj_job.status = "failed" => cj_job.progress = 0

\* A run failed after progress 88 had been reported.
C18_Witness ==
    /\ cj_pc = "ended"
    /\ cj_job.status = "failed"
    /\ ProgressBeforeLastUpdate = 88
    /\ cj_job.progress = 0

\* The updates the run performed: the history without the job as created.
RunUpdates == IF cj_updates = <<>> THEN <<>> ELSE Tail(cj_updates)

\* C19, as stated: over the updates of one run the progress never decreases
\* from one update to the next.
C19_ProgressNeverDecreases ==
    \A i \in 1..(Len(RunUpdates) - 1) :
        RunUpdates[i + 1].progress >= RunUpdates[i].progress

\* C19, amended: over the updates of one run the progress never decreases
\* from one update to the next, except in the update that marks the job
\* Failed, which sets the progress to 0.
C19_ProgressNeverDecreasesBeforeFailure ==
    \A i \in 1..(Len(RunUpdates) - 1) :
        IF RunUpdates[i + 1].status = "failed"
        THEN RunUpdates[i + 1].progress = 0
        ELSE RunUpdates[i + 1].progress >= RunUpdates[i].progress

\* A run performed its twelve stage updates, each with more progress than
\* the one before.
C19_Witness ==
    /\ cj_job.status = "completed"
    /\ Len(RunUpdates) = Len(Stages)
    /\ \A i \in 1..(Len(RunUpdates) - 1) :
         RunUpdates[i + 1].progress > RunUpdates[i].progress

\* The user has no AI key or base URL, or the requirements text is empty or
\* blank.
Unconfigured ==
    \/ cj_in.ai_api_key \in { "none", "empty" }
    \/ cj_in.ai_base_url \in { "none", "empty" }
    \/ cj_in.requirements_text \in { "none", "empty", "blank" }

\* C20: when the user has no AI key or base URL, or the requirements text
\* is empty or blank, the run marks the job Failed with a message, issues
\* no LLM call, prepares no workspace and writes no file.
C20_UnconfiguredRunFailsAtOnce ==
    cj_in.missing = "" /\ Unconfigured =>
        /\ cj_llm_calls = 0
        /\ ~cj_workspace
        /\ cj_files = 0
        /\ cj_job.status # "running"
        /\ cj_pc = "ended" =>
             /\ cj_job.status = "failed"
             /\ cj_job.message \in { "configure AI first", "requirements are empty" }
             /\ Len(RunUpdates) = 1

\* A run with a key, a base URL and a blank requirements text was refused.
C20_Witness ==
    /\ cj_pc = "ended"
    /\ cj_in = RunInput("", "set", "set", "blank")
    /\ cj_job.status = "failed"
    /\ cj_job.error = "requirements are empty"
    /\ cj_llm_calls = 0

\* The fixed order of the stage tags of the copyright pipeline.
StageOrder == << "preparing", "generating", "rendering", "saving", "completed" >>

StageRank(tag) == CHOOSE i \in 1..Len(StageOrder) : StageOrder[i] = tag

\* The tags recorded in the job follow the order: each update keeps the
\* tag, moves to the next tag of the order, or records error, after which
\* nothing is recorded; a completed run has recorded every tag.
TagsFollowOrder ==
    /\ \A i \in 1..(Len(cj_updates) - 1) :
         /\ cj_updates[i].stage # "error"
         /\ \/ cj_updates[i + 1].stage = "error"
            \/ /\ cj_updates[i + 1].stage \in { StageOrder[k] : k \in 1..Len(StageOrder) }
               /\ StageRank(cj_updates[i + 1].stage) - StageRank(cj_updates[i].stage)
                    \in { 0, 1 }
    /\ cj_job.status = "completed" =>
         { cj_updates[i].stage : i \in 1..Len(cj_updates) }
           = { StageOrder[k] : k \in 1..Len(StageOrder) }

\* The work a step of the run performs, "" when it performs none.
WorkOfStep ==
    IF cj_pc = "working" /\ cj_pc' # "idle" /\ (cj_step' # cj_step \/ cj_pc' = "ended")
    THEN Stages[cj_step].work ELSE ""

\* A step that calls the LLM, merges or packages finds the update that
\* announces its stage committed as the job's latest state.
WorkFollowsItsUpdate ==
    /\ cj_llm_calls' > cj_llm_calls \/ cj_requests' > cj_requests =>
         cj_job.stage = "generating" /\ cj_updates[Len(cj_updates)] = cj_job
    /\ WorkOfStep = "merge" =>
         cj_job.stage = "rendering" /\ cj_updates[Len(cj_updates)] = cj_job
    /\ WorkOfStep = "zip" =>
         cj_job.stage = "saving" /\ cj_updates[Len(cj_updates)] = cj_job

\* C21: within one copyright run the stage tags recorded in the job follow
\* the order preparing, generating, rendering, saving, completed (error
\* allowed from any of them) with no tag skipped on a successful run, and
\* every LLM call, merge step and packaging step starts only after the
\* update announcing its stage has been committed.
C21_StagesInOrderAndAnnounced ==
    []TagsFollowOrder /\ [][WorkFollowsItsUpdate]_vars

\* A run went through every stage, made its ten LLM calls and completed.
C21_Witness ==
    /\ cj_pc = "ended"
    /\ cj_job.stage = "completed"
    /\ cj_llm_calls = 10
    /\ { cj_updates[i].stage : i \in 1..Len(cj_updates) }
         = { "preparing", "generating", "rendering", "saving", "completed" }

\* The diagnostic output of the merge subprocess: stderr, else stdout.
DiagnosticOutput == IF cj_diag.stderr # "" THEN cj_diag.stderr ELSE cj_diag.stdout

\* C24: when the merge subprocess ends with a non-zero exit code the run is
\* failed, no archive is produced, and the job's error is the subprocess's
\* diagnostic output verbatim (stderr, else stdout), whatever the text.
C24_MergeFailureSurfacesDiagnostics ==
    cj_diag.returncode # 0 =>
        /\ cj_pc = "ended"
        /\ cj_job.status = "failed"
        /\ cj_job.output_zip_path = ""
        /\ cj_step < Len(Stages) - 1
        /\ cj_job.error = DiagnosticOutput

\* The merge subprocess failed with "HTTP 429" on stderr and the job's
\* error is the rate-limit message.
C24_Witness ==
    /\ cj_pc = "ended"
    /\ cj_diag = Diag(1, "HTTP 429", "")
    /\ cj_job.status = "failed"
    /\ cj_job.error = RateLimitMessage

\* The completion of a trace raises a rate-limit-classified error.
RateLimited(completion) ==
    completion.k = "raises" /\ is_rate_limit_error(completion.error)

\* The attempt of a trace at which the call meets a rate-limit error, every
\* attempt before it having failed otherwise; 0 when there is none.
RateLimitedAttempt(trace) ==
    IF \E i \in 1..Len(trace) :
          /\ RateLimited(trace[i])
          /\ \A j \in 1..(i - 1) : trace[j].k = "raises" /\ ~RateLimited(trace[j])
    THEN CHOOSE i \in 1..Len(trace) :
          /\ RateLimited(trace[i])
          /\ \A j \in 1..(i - 1) : trace[j].k = "raises" /\ ~RateLimited(trace[j])
    ELSE 0

\* C25: when an LLM call of a copyright run fails with a rate-limit
\* classified error, the call issues no request after the one that met it,
\* the run issues no further LLM call, and the job ends Failed with the
\* rate-limit message as its error.
C25_RateLimitEndsTheRun ==
    /\ [](/\ \A trace \in CallTraces :
               RateLimitedAttempt(trace) # 0 =>
                   /\ run_prompt(trace, 0).result.k = "rate_limit"
                   /\ run_prompt(trace, 0).requests = RateLimitedAttempt(trace)
          /\ cj_raised = "rate_limit" =>
               /\ cj_pc = "ended"
               /\ cj_job.status = "failed"
               /\ cj_job.error = RateLimitMessage)
    /\ [][cj_raised = "rate_limit" \/ cj_raised' = "rate_limit" =>
            cj_llm_calls' = cj_llm_calls /\ cj_requests' = cj_requests]_vars

\* The fifth LLM call of a run met a rate limit at its second request and
\* the run ended there.
C25_Witness ==
    /\ cj_pc = "ended"
    /\ cj_raised = "rate_limit"
    /\ cj_llm_calls = 5
    /\ cj_requests = 6
    /\ cj_job.error = RateLimitMessage
    /\ cj_job.stage = "error"

(***************************************************************************)
(* Claims about the latest-job long poll.                                  *)
(***************************************************************************)
\* The job the handler holds has an updated_at later than since.
AdvancedPastSince == gl_job.has_updated_at /\ gl_job.updated_at > gl_since.t

HeldJobFinished == gl_job.status \in { "completed", "failed" }

\* min(wait, 25), the most re-checks a request may make.
RecheckBudget == IF gl_wait < PollCap THEN gl_wait ELSE PollCap

WaitsAtAll == gl_since.kind \in { "naive", "aware" } /\ gl_wait > 0

\* C26: with a parseable since and wait > 0 the poll of an existing job
\* re-reads the job once per sleep of one unit, returns at the first read
\* that shows an updated_at later than since or a Completed or Failed
\* status, and otherwise returns after min(wait, 25) re-reads; with no
\* since, an unparseable since or wait <= 0 it returns the snapshot without
\* sleeping.
C26_PollReturnsAtFirstChangeOrBudget ==
    /\ ~WaitsAtAll => gl_pc \in { "idle", "request", "returned" } /\ gl_elapsed = 0
    /\ WaitsAtAll =>
         /\ gl_row_exists => gl_pc # "raised"
         /\ gl_elapsed <= RecheckBudget
         /\ gl_pc = "sleeping" =>
              ~AdvancedPastSince /\ ~HeldJobFinished /\ gl_elapsed < RecheckBudget
         /\ gl_pc = "returned" =>
              \/ (AdvancedPastSince \/ HeldJobFinished) /\ gl_satisfied_at = gl_elapsed
              \/ gl_elapsed = RecheckBudget
         /\ gl_satisfied_at # -1 => gl_pc = "returned" /\ gl_elapsed = gl_satisfied_at

\* A poll with a since that carries an offset met a job whose updated_at
\* carries none, and the request ended in the TypeError of the comparison.
C26_Witness ==
    /\ gl_pc = "raised"
    /\ gl_row_exists
    /\ gl_since.kind = "aware"
    /\ gl_wait > 0
    /\ gl_job.has_updated_at
    /\ ~gl_job.aware
    /\ gl_elapsed = 0

\* ---- C27 ----

\* The five system keys of a record.
SystemKeysOf(data) ==
    [project_name |-> data.project_name, week |-> data.week,
     sequence |-> data.sequence, hours |-> data.hours,
     total_hours |-> data.total_hours]

\* Every row of the plan is a PlanItem: an integer order and a positive
\* integer hour.
RowsArePlanItems(plan) ==
    \A i \in 1..Len(plan.schedule) :
        /\ IsInt(plan.schedule[i].order)
        /\ IsInt(plan.schedule[i].hour)
        /\ plan.schedule[i].hour.v > 0

\* The sum of hour over the rows of the given positions.
RECURSIVE SumOfHour(_, _)
SumOfHour(schedule, positions) ==
    IF positions = {} THEN 0
    ELSE LET i == CHOOSE j \in positions : TRUE
         IN  schedule[i].hour.v + SumOfHour(schedule, positions \ { i })

\* The sum of hour over the rows with order <= sequence.
CumulativeHourCount(plan) ==
    SumOfHour(plan.schedule,
              { i \in 1..Len(plan.schedule) : plan.schedule[i].order.v <= plan.sequence })

\* The row of the session the request names.
RowOfSession(plan) ==
    CHOOSE item \in { plan.schedule[i] : i \in 1..Len(plan.schedule) } :
        item.order = IntV(plan.sequence)

\* C27: from the return of generate_lesson_plan_content on, the record's
\* project_name, week, sequence, hours and total_hours are the values the
\* system computed from the plan, whatever the model answered for them; for
\* a plan of PlanItems total_hours is the sum of hour over the rows with
\* order <= sequence, hours the hour of the session's row and sequence the
\* session asked for; the validation is made with these hours, and the
\* rendered and the saved record carry the same five values.
C27_SystemFieldsAreAuthoritative ==
    /\ lp_data # NoData =>
         /\ SystemKeysOf(lp_data) = lp_system
         /\ lp_system = system_fields(lp_plan)
         /\ lp_data.sequence = IntV(lp_plan.sequence)
         /\ RowsArePlanItems(lp_plan) =>
              /\ lp_data.total_hours = IntV(CumulativeHourCount(lp_plan))
              /\ lp_data.hours = RowOfSession(lp_plan).hour
    /\ LastValidated =>
         lp_ok = validate_time_allocation(lp_data, lp_system.hours).ok
    /\ lp_rendered # NoData => SystemKeysOf(lp_rendered) = lp_system
    /\ lp_saved # NoData => SystemKeysOf(lp_saved) = lp_system

\* A lesson of the second session of a plan of PlanItems is completed: the
\* saved record carries the title and the week of the row and the eight
\* hours of the two sessions, none of them the model's value.
C27_Witness ==
    /\ lp_pc = "completed"
    /\ RowsArePlanItems(lp_plan)
    /\ lp_plan.sequence = 2
    /\ lp_saved.project_name = "Project 2: b"
    /\ lp_saved.week = IntV(1)
    /\ lp_saved.hours = IntV(4)
    /\ lp_saved.total_hours = IntV(8)
    /\ lp_saved.total_hours # ModelNumber

\* ---- C28 ----

\* The item at every position of the returned plan has the week and the
\* order of the frame slot at that position.
ItemsFollowFrame ==
    /\ Len(tp_result) = Len(tp_frame)
    /\ \A i \in 1..Len(tp_result) :
         /\ tp_result[i].week = tp_frame[i].week
         /\ tp_result[i].order = tp_frame[i].order

\* No two items of the returned plan share an order.
OrdersAreUnique ==
    \A i, j \in 1..Len(tp_result) :
        tp_result[i].order = tp_result[j].order => i = j

\* The last item of the returned plan is the review session appended by the
\* caller, at the last slot of the frame.
EndsWithReview ==
    /\ tp_result # <<>>
    /\ tp_result[Len(tp_result)] =
         review_item(tp_frame, tp_in.total_weeks, tp_actual, tp_in.hour_per_class)
    /\ tp_result[Len(tp_result)].title = "review"
    /\ tp_frame # <<>> =>
         /\ tp_result[Len(tp_result)].week = tp_frame[Len(tp_frame)].week
         /\ tp_result[Len(tp_result)].order = tp_frame[Len(tp_frame)].order

\* C28: every item of the plan generate_teaching_plan_schedule returns has
\* the week and order of the frame slot at its position, no two items share
\* an order, and with final_review the last item is the review session the
\* caller appends, with the fixed title and the week and order of the last
\* frame slot, whatever array the model answered.
C28_ReturnedPlanFollowsFrame ==
    tp_pc = "returned" =>
        /\ ItemsFollowFrame
        /\ OrdersAreUnique
        /\ tp_in.final_review => EndsWithReview

\* The part of C28 the code enforces: with final_review the returned plan
\* ends with the appended review session.
ReturnedPlanEndsWithReview ==
    (tp_pc = "returned" /\ tp_in.final_review) => EndsWithReview

\* The model answered an array with a week moved and the array was returned
\* as it came, the review session appended: the first item is not at the
\* week of the first frame slot.
C28_Witness ==
    /\ tp_pc = "returned"
    /\ tp_in.final_review
    /\ Len(tp_result) = Len(tp_frame)
    /\ Len(tp_frame) >= 2
    /\ tp_result[1].order = tp_frame[1].order
    /\ tp_result[1].week # tp_frame[1].week
    /\ EndsWithReview

\* ---- C23 ----

\* The generated folders and the three source subfolders exist and hold
\* nothing else: no file at any depth and no other directory.
GeneratedDirsAreEmpty(fs) ==
    /\ GeneratedDirs \subseteq fs.dirs
    /\ \A p \in WsPaths : \A d \in GeneratedFolders : IsUnder(p, d) => fs.files[p] = NoFile
    /\ \A e \in fs.dirs : \A d \in GeneratedFolders : IsUnder(e, d) => e \in SourceSubfolders

\* A run has just left prepare_project_workspace: it passed from the queue
\* to its first completion call.
RunPrepared == \E r \in RunIds : ws_pc[r] = "queued" /\ ws_pc'[r] = WorkSteps[1]

\* C23: after every call of prepare_project_workspace, whatever the project
\* directory held before, process_docs, output_docs and
\* output_sourcecode/{front,backend,db} exist and contain no file, and a
\* second call in a row gives the tree of the first.
C23_PrepareLeavesEmptyGeneratedDirs ==
    [][RunPrepared =>
         /\ GeneratedDirsAreEmpty(ws_fs')
         /\ GeneratedDirsAreEmpty(prepare_project_workspace(ws_fs))
         /\ prepare_project_workspace(prepare_project_workspace(ws_fs))
              = prepare_project_workspace(ws_fs)]_vars

\* A run prepared a workspace that held the form, a draft below process_docs
\* and the front page of an earlier run, and is at its first call: the
\* generated folders are empty.
C23_Witness ==
    /\ ws_prepared # ""
    /\ ws_pc[ws_prepared] = WorkSteps[1]
    /\ ws_prior.files[FormPath] = "old"
    /\ ws_prior.files[DraftPath] = "old"
    /\ ws_prior.files[FrontPagePath] = "old"
    /\ <<"process_docs", "drafts">> \in ws_prior.dirs
    /\ GeneratedDirsAreEmpty(ws_fs)

\* ---- C22 ----

\* The run is between its prepare_project_workspace and its zip_project.
InFlight(r) == ws_pc[r] \in { WorkSteps[i] : i \in 1..Len(WorkSteps) }

\* While a run is in flight no step of another run changes the files of the
\* project directory.
NoForeignChange ==
    \A r \in RunIds :
        (InFlight(r) /\ \E o \in RunIds \ { r } : ws_pc'[o] # ws_pc[o])
            => ws_fs' = ws_fs

\* The archive of a run holds exactly the files of that run: every file the
\* run wrote, as the run wrote it, and besides them only the vendor files
\* its prepare copied.
ArchiveIsOwn(r) ==
    ws_pc[r] = "archived" =>
        /\ \A p \in ws_written[r] : <<p, r>> \in ws_archive[r]
        /\ \A e \in ws_archive[r] : e[2] \in { r, "vendor" }

\* C22: from a run's prepare_project_workspace to its zip_project no other
\* run deletes or writes files in the project directory, so the archive of a
\* run contains exactly the files of that run, also when two generate
\* requests for the same project id interleave at their awaits.
C22_WorkspaceOwnedUntilArchived ==
    /\ [](\A r \in RunIds : ArchiveIsOwn(r))
    /\ [][NoForeignChange]_vars

\* What holds of an archive whatever the other run does: it has the files
\* the run wrote after the last preparation of the workspace, and of the
\* files below the generated folders only such as were written after it.
ArchiveAfterLastPrepare ==
    \A r \in RunIds :
        (ws_pc[r] = "archived" /\ ws_prepared = r) =>
            /\ \A p \in ws_written[r] : InProject(p) => \E e \in ws_archive[r] : e[1] = p
            /\ \A e \in ws_archive[r] :
                 (\E d \in GeneratedFolders : IsUnder(e[1], d)) => e[2] \in RunIds

\* The first run wrote its page list and was at its last call when the
\* second run prepared the workspace and wrote its framework document: the
\* archive of the first run lacks its own page list and holds the framework
\* document of the second.
C22_Witness ==
    /\ ws_pc["first"] = "archived"
    /\ ws_prepared = "second"
    /\ PageListPath \in ws_written["first"]
    /\ \A e \in ws_archive["first"] : e[1] # PageListPath
    /\ <<FrameworkPath, "second">> \in ws_archive["first"]

\* ---- C37 ----

\* The frame built for as many sessions as there are available slots.
FullFrame ==
    build_schedule_frame(f_in.total_weeks, f_in.classes_per_week, f_available,
                         f_in.first_week_classes, f_in.skip_slots)

\* C37: for every input with actual_classes >= 1 the frame
\* build_schedule_frame returns has min(actual_classes, available count)
\* slots, the available count being that of count_available_slots for the
\* same weeks, classes and skips, and it is the prefix of that length of the
\* frame built with actual_classes equal to the available count.
C37_FrameIsPrefixOfFullFrame ==
    (f_pc = "built" /\ f_actual >= 1) =>
        /\ Len(f_built.schedule) = PyMin(f_actual, f_available)
        /\ Len(f_built.schedule) <= Len(FullFrame)
        /\ f_built.schedule = SubSeq(FullFrame, 1, Len(f_built.schedule))

\* A frame cut short by actual_classes: two of the three available slots,
\* the first session of week 1 skipped.
C37_Witness ==
    /\ f_pc = "built"
    /\ f_actual = 2
    /\ f_available = 3
    /\ Len(f_built.schedule) = 2
    /\ <<1, 1>> \in NamedSkipPairs(f_in.skip_slots)
    /\ Len(FullFrame) = 3

\* The frame asked for more sessions than are available holds them all.
FrameCutByAvailableCount ==
    /\ f_pc = "built"
    /\ f_actual = 3
    /\ f_available = 2
    /\ f_built.schedule = FullFrame

\* ---- C36 ----

\* The record cannot pass whatever its times: new_lessons is a list of
\* fewer than 3 or more than 5 elements, or hours is not a positive integer.
CountOrHoursBroken ==
    /\ lp_data # NoData
    /\ \/ ~IsInt(lp_hours)
       \/ lp_hours.v <= 0
       \/ /\ lp_data.new_lessons.k = "list"
          /\ Len(lp_data.new_lessons.items) \notin MinNewLessons..MaxNewLessons

\* A step of the pipeline on a generated record leaves the number of the
\* elements of new_lessons and the type of each element as they were.
ShapeOfNewLessonsKept ==
    lp_data # NoData =>
        /\ lp_data'.new_lessons.k = lp_data.new_lessons.k
        /\ Len(lp_data'.new_lessons.items) = Len(lp_data.new_lessons.items)
        /\ \A i \in 1..Len(lp_data.new_lessons.items) :
             lp_data'.new_lessons.items[i].k = lp_data.new_lessons.items[i].k
        /\ lp_hours' = lp_hours

\* Such a record fails every validation and is never rendered.
BrokenRecordNeverPasses ==
    CountOrHoursBroken =>
        /\ \A i \in 1..Len(lp_checks) : ~lp_checks[i]
        /\ lp_pc \in { "await_repair", "error" }
        /\ lp_rendered = NoData
        /\ lp_saved = NoData

\* C36, as stated: the reconciliation loop changes neither the number nor
\* the type of the elements of new_lessons; a record that fails because of
\* that number or because hours is not a positive integer fails after every
\* repair, and its pipeline makes exactly 2 repair calls and then ends in
\* the error outcome, whatever the repair responses contain.
C36_BrokenRecordTakesTwoRepairs ==
    /\ [][ShapeOfNewLessonsKept]_vars
    /\ []BrokenRecordNeverPasses
    /\ []((CountOrHoursBroken /\ lp_pc = "error") => lp_repairs = RepairBudget)

\* C36, amended: the reconciliation loop changes neither the number nor the
\* type of the elements of new_lessons; a record that fails because of that
\* number or because hours is not a positive integer fails after every
\* repair and its pipeline ends in the error outcome after at most 2 repair
\* calls: after exactly 2 with the validator's reason when both calls
\* return and both responses merge, after fewer only with the exception of
\* a repair call or of the merge of its response.
C36_BrokenRecordEndsInError ==
    /\ [][ShapeOfNewLessonsKept]_vars
    /\ []BrokenRecordNeverPasses
    /\ []((CountOrHoursBroken /\ lp_pc = "error") =>
            /\ lp_repairs <= RepairBudget
            /\ lp_error.kind = "validation" => lp_repairs = RepairBudget
            /\ lp_repairs < RepairBudget =>
                 /\ lp_error.reason \in { "regenerate", "merge" }
                 /\ lp_error.kind \in { "APIError", "EmptyCompletion", "JSONDecodeError",
                                        "AttributeError", "TypeError" })

\* A record of two elements met a correction whose first element is not an
\* object: the run ended in the merge of the first repair call.
C36_Witness ==
    /\ lp_pc = "error"
    /\ CountOrHoursBroken
    /\ Len(lp_data.new_lessons.items) = MinNewLessons - 1
    /\ lp_repairs = 1
    /\ lp_error = LessonError("AttributeError", "merge")

\* A record of six elements went through both repairs and ended with the
\* validator's reason.
BrokenRecordAfterTwoRepairs ==
    /\ lp_pc = "error"
    /\ CountOrHoursBroken
    /\ Len(lp_data.new_lessons.items) = MaxNewLessons + 1
    /\ lp_repairs = RepairBudget
    /\ lp_error.kind = "validation"

\* ---- C34 ----

\* A job's optional text column is NULL (the model writes "" for None:
\* every text the run stores in error or output_zip_path is non-empty).
IsNull(text) == text = ""

\* What a reader of one committed job row is promised.
JobRowIsConsistent(job) ==
    /\ job.status = "completed" =>
         /\ job.progress = 100
         /\ job.stage = "completed"
         /\ ~IsNull(job.output_zip_path)
         /\ IsNull(job.error)
    /\ ~IsNull(job.output_zip_path) => job.status = "completed"
    /\ job.status = "failed" =>
         /\ job.stage = "error"
         /\ ~IsNull(job.error)

\* C34: every committed state of a copyright job, the one a reader finds
\* at any moment of the run, satisfies: completed implies progress 100,
\* stage completed, an archive path and no error; an archive path implies
\* completed; failed implies stage error and an error text.
C34_CommittedJobIsConsistent ==
    /\ JobRowIsConsistent(cj_job)
    /\ \A i \in 1..Len(cj_updates) : JobRowIsConsistent(cj_updates[i])

\* A run went through every stage: its rows were queued, running twelve
\* times over and completed with the archive.
C34_Witness ==
    /\ cj_pc = "ended"
    /\ Len(cj_updates) = Len(Stages) + 1
    /\ cj_job = Job("completed", "completed", Stages[Len(Stages)].message, 100, "", "zip")
    /\ cj_updates[Len(cj_updates)] = cj_job
    /\ cj_updates[Len(cj_updates) - 1].status = "running"
    /\ IsNull(cj_updates[Len(cj_updates) - 1].output_zip_path)

\* A run failed while making the archive: failed, error, no archive path.
JobFailedAtArchive ==
    /\ cj_pc = "ended"
    /\ cj_step = Len(Stages) - 1
    /\ cj_job.status = "failed"
    /\ cj_job.stage = "error"
    /\ cj_job.progress = 0
    /\ ~IsNull(cj_job.error)
    /\ IsNull(cj_job.output_zip_path)

\* ---- C33 ----

\* The step is one of the run bound to job_id.
StepOfRun(job_id) == jt_actor' = job_id /\ jt_table' # jt_table

\* A step adds at most one row, and a new row is the queued job; a step of
\* a run leaves every row but the run's own as it was.
OnlyOwnJobChanges ==
    /\ Len(jt_table') \in { Len(jt_table), Len(jt_table) + 1 }
    /\ Len(jt_table') = Len(jt_table) + 1 =>
         /\ jt_table'[Len(jt_table')] = QueuedJob
         /\ jt_pc'[Len(jt_table')] = "queued"
         /\ jt_step'[Len(jt_table')] = 0
    /\ \A job_id \in 1..Len(jt_table) :
         jt_table'[job_id] # jt_table[job_id] => jt_actor' = job_id

\* The first update of a run is the first stage's or a refusal, whatever
\* the rows of the other runs hold; every later update is the next stage's
\* of the run's own job, or its failure.
NoRunResumes ==
    \A job_id \in 1..Len(jt_table) :
        StepOfRun(job_id) =>
            \/ /\ jt_pc[job_id] = "queued"
               /\ jt_table[job_id] = QueuedJob
               /\ jt_table'[job_id] \in
                    { stage_update(QueuedJob, 1),
                      failure_update(QueuedJob, "configure AI first", "AI not configured") }
            \/ /\ jt_pc[job_id] = "working"
               /\ jt_table'[job_id].status = "failed"
            \/ /\ jt_pc[job_id] = "working"
               /\ jt_step'[job_id] = jt_step[job_id] + 1
               /\ jt_table'[job_id] = stage_update(jt_table[job_id], jt_step'[job_id])

\* C33: every generate request adds a new job, queued with progress 0, and
\* its run updates no job but that one; no run takes up the stages of
\* another run.
C33_RunUpdatesOnlyItsOwnJob == [][OnlyOwnJobChanges /\ NoRunResumes]_vars

\* Two runs of the project are at different stages and each job row shows
\* its own run's stage.
C33_Witness ==
    /\ Len(jt_table) = 2
    /\ jt_pc[1] = "working" /\ jt_pc[2] = "working"
    /\ jt_step[1] = 6 /\ jt_step[2] = 2
    /\ jt_table[1].progress = Stages[6].progress
    /\ jt_table[2].progress = Stages[2].progress

\* A run started after a completed run began at the first stage and left
\* the completed row as it was.
RunAfterCompletedRun ==
    /\ Len(jt_table) = 2
    /\ jt_table[1] = CompletedJob
    /\ jt_pc[1] = "ended" /\ jt_step[1] = 0
    /\ jt_pc[2] = "working" /\ jt_step[2] = 1
    /\ jt_table[2] = stage_update(QueuedJob, 1)

\* ---- C35 ----

LessonOrder == <<"analyzing", "parsing", "retrieving", "generating", "rendering", "completed">>
TeachingOrder == <<"validating", "generating", "rendering", "saving", "completed">>

StagesOf(order) == { order[i] : i \in 1..Len(order) }
RankIn(order, stage) == CHOOSE i \in 1..Len(order) : order[i] = stage

IsTerminal(event) == event.stage \in { "completed", "error" }

\* The events before a closing error event.
WithoutError(events) ==
    IF events # <<>> /\ events[Len(events)].stage = "error"
    THEN SubSeq(events, 1, Len(events) - 1)
    ELSE events

\* The stages of the events walk through the order from its first stage,
\* none left out and none taken up again.
WalksThrough(events, order) ==
    /\ \A i \in 1..Len(events) : events[i].stage \in StagesOf(order)
    /\ events # <<>> => events[1].stage = order[1]
    /\ \A i \in 1..(Len(events) - 1) :
         RankIn(order, events[i + 1].stage) - RankIn(order, events[i].stage) \in { 0, 1 }

\* The events of a stream, which has ended or not, are in order and the
\* terminal event is the last one.
StreamIsInOrder(events, order, ended) ==
    /\ WalksThrough(WithoutError(events), order)
    /\ \A i \in 1..Len(events) :
         /\ IsTerminal(events[i]) => i = Len(events) /\ ended
         /\ events[i].stage = "completed" => events[i].progress = 100
         /\ events[i].stage = "error" => events[i].progress = 0
    /\ ended => events # <<>> /\ IsTerminal(events[Len(events)])

\* C35: the lesson-plan stream emits analyzing, parsing, retrieving,
\* generating, rendering, completed in this order and the teaching-plan
\* stream validating, generating, rendering, saving, completed; a stream
\* that has ended holds exactly one terminal event, completed with
\* progress 100 or error with progress 0, and it is its last event.
C35_StreamsEmitInOrderAndEndOnce ==
    /\ StreamIsInOrder(lp_events, LessonOrder, lp_pc \in { "completed", "error" })
    /\ StreamIsInOrder(ts_events, TeachingOrder, ts_pc = "ended")

\* A teaching-plan stream went through every stage and ended completed.
C35_Witness ==
    /\ ts_pc = "ended"
    /\ [i \in 1..Len(ts_events) |-> ts_events[i].stage] =
         <<"validating", "generating", "generating", "rendering", "saving", "completed">>
    /\ ts_events[Len(ts_events)].progress = 100

\* A lesson-plan stream went through every stage and ended completed.
LessonStreamCompleted ==
    /\ lp_pc = "completed"
    /\ [i \in 1..Len(lp_events) |-> lp_events[i].stage] =
         <<"analyzing", "parsing", "retrieving", "generating", "generating", "rendering",
           "completed">>

\* A lesson-plan stream ended in error after the validation failed, a
\* teaching-plan stream after its document was rendered.
LessonStreamFailedInRepair ==
    /\ lp_pc = "error"
    /\ lp_repairs = RepairBudget
    /\ lp_events[Len(lp_events)] = StreamEvent("error", 0)
    /\ Len(lp_events) = 5

TeachingStreamFailedInSaving ==
    /\ ts_pc = "ended"
    /\ Len(ts_events) = 6
    /\ ts_events[5].stage = "saving"
    /\ ts_events[6] = StreamEvent("error", 0)

\* ---- C31 ----

\* C31, as stated: hour_per_class of the built parameters is the value
\* supplied directly when one is supplied, otherwise the mode of the
\* positive hours of the items; when no item carries an hour and the total
\* hours are known, it is the total divided by the number of items,
\* rounded up.
C31_HourPerClassSuppliedThenModeThenCeiling ==
    pp_pc = "built" =>
        IF PositiveInt(pp_supplied)
        THEN pp_params.hour_per_class = pp_supplied
        ELSE IF positive_hours(hours_of(pp_schedule)) # {}
        THEN pp_params.hour_per_class = IntV(mode_of_hours(hours_of(pp_schedule)))
        ELSE PositiveInt(pp_total) =>
               pp_params.hour_per_class = IntV(CeilDiv(pp_total.v, Len(pp_schedule)))

\* Parameters were built from a supplied value of 2 and items of 1 hour.
C31_Witness ==
    /\ pp_pc = "built"
    /\ pp_supplied = IntV(2)
    /\ pp_schedule = <<ParamItem(IntV(1), IntV(1)), ParamItem(IntV(2), IntV(1))>>
    /\ pp_params.hour_per_class = IntV(1)

\* Parameters were built from 5 total hours and two items without hours.
HourPerClassRoundedDown ==
    /\ pp_pc = "built"
    /\ ~PositiveInt(pp_supplied)
    /\ pp_total = IntV(5)
    /\ pp_schedule = <<ParamItem(IntV(1), NoneV), ParamItem(IntV(2), NoneV)>>
    /\ pp_params.hour_per_class = IntV(2)

\* The hours of the items that carry an order other than 0: the items the
\* parameters keep.
KeptHours ==
    hours_of(SelectSeq(pp_schedule, LAMBDA item : item.order.k = "int" /\ item.order.v # 0))

\* Where the sentence and the code agree: no kept item carries a positive
\* hour and a value is supplied; no value is supplied and a kept item
\* carries one.
HourPerClassWhereSourcesDoNotCompete ==
    pp_pc = "built" =>
        /\ (PositiveInt(pp_supplied) /\ positive_hours(KeptHours) = {}) =>
              pp_params.hour_per_class = pp_supplied
        /\ (~PositiveInt(pp_supplied) /\ positive_hours(KeptHours) # {}) =>
              pp_params.hour_per_class = IntV(mode_of_hours(KeptHours))

\* The first item carried no order and was left out.
ItemWithoutOrderLeftOut ==
    /\ pp_pc = "built"
    /\ Len(pp_schedule) = 3
    /\ pp_schedule[1] = ParamItem(NoneV, IntV(2))
    /\ hours_of(pp_params.schedule) = <<IntV(1), IntV(1)>>
    /\ pp_params.hour_per_class = IntV(1)

\* The items came in descending order and the parameters hold them sorted.
ItemsSortedByOrder ==
    /\ pp_pc = "built"
    /\ pp_schedule = <<ParamItem(IntV(2), IntV(1)), ParamItem(IntV(1), IntV(2))>>
    /\ pp_params.schedule = <<ParamItem(IntV(1), IntV(2)), ParamItem(IntV(2), IntV(1))>>

\* ---- C32 ----

\* The structure the framework extraction asks for: a JSON object whose
\* fields module_list and innovation_points are arrays of strings.
ExpectedFrameworkAnswer ==
    /\ ex_framework.k = "object"
    /\ ex_framework.module_list.k = "list"
    /\ ex_framework.innovation_points.k = "list"

\* The answer of the page extraction is not a JSON array.
PagesUnparseable == ex_pages.k # "array"

FrameworkExtracted == Len(ex_caught) >= 1
PagesExtracted == Len(ex_caught) = 2

\* An extraction that has returned raised nothing and the run went on.
ExtractionLetsTheRunProceed ==
    /\ FrameworkExtracted => (ex_pc \in { "pages", "ui" } \/ ex_raised = "RuntimeError")
    /\ PagesExtracted => ex_pc = "ui" /\ ex_raised = ""
    /\ ex_pc = "failed" => ex_raised = "RuntimeError"

\* C32, as stated: an answer of the framework extraction or of the page
\* extraction that cannot be parsed into the expected structure gives
\* empty results and no exception, and the run goes on to its next stage.
C32_UnparseableAnswerGivesEmptyResults ==
    /\ (FrameworkExtracted /\ ~ExpectedFrameworkAnswer) => ex_insights = NoInsights
    /\ (PagesExtracted /\ PagesUnparseable) => ex_page_items = <<>>
    /\ ExtractionLetsTheRunProceed

\* A field value that counts as true and has no elements to go through: a
\* number other than 0, the boolean true.
TrueAndNotIterable(f) == f.k \in { "num", "bool" } /\ f.n # 0

\* The framework answers that give two empty texts whatever else they
\* hold: no JSON, a JSON value that is not an object, an object with such
\* a field.
FrameworkAnswerRefused ==
    \/ ex_framework.k # "object"
    \/ TrueAndNotIterable(ex_framework.module_list)
    \/ TrueAndNotIterable(ex_framework.innovation_points)

\* The text a field gives otherwise: a line "- <element>" for each element
\* of an array, each character of a string, each key of an object; no line
\* for a field that is missing, null, 0 or false.
FieldText(f) ==
    IF f.k \in { "list", "mixed", "str", "dict" }
    THEN [i \in 1..Len(f.items) |-> "- " \o f.items[i]]
    ELSE <<>>

\* C32, amended: a framework answer that is no JSON, no JSON object, or an
\* object with a field that is a number other than 0 or true gives two
\* empty texts; any other object gives, field by field, the text of the
\* field, which for a string or an object in place of the array is not
\* empty; an answer of the page extraction that is not a JSON array gives
\* the five default pages, and of an array the elements that are objects
\* are kept, the others left out; neither extraction raises, and the run
\* goes on to its next stage.
C32_UnparseableAnswerGivesEmptyTextsOrDefaultPages ==
    /\ (FrameworkExtracted /\ FrameworkAnswerRefused) => ex_insights = NoInsights
    /\ (FrameworkExtracted /\ ~FrameworkAnswerRefused) =>
          ex_insights = Insights(FieldText(ex_framework.module_list),
                                 FieldText(ex_framework.innovation_points))
    /\ (PagesExtracted /\ PagesUnparseable) =>
          /\ ex_page_items = DefaultPages
          /\ Len(ex_page_items) = 5
    /\ (PagesExtracted /\ ~PagesUnparseable) =>
          Len(ex_page_items) =
             Cardinality({ i \in 1..Len(ex_pages.elements) : IsObject(ex_pages.elements[i]) })
    /\ ExtractionLetsTheRunProceed

\* The framework answer held a string for module_list and no
\* innovation_points, the page answer was no JSON: the run reached the UI
\* design with a line for each character of the string and the default
\* pages.
C32_Witness ==
    /\ ex_pc = "ui"
    /\ ex_framework = FrameworkAnswer("object", Field("str", <<"a", "b">>, 0),
                                      Field("none", <<>>, 0))
    /\ ex_pages.k = "not_json"
    /\ ex_caught = <<"", "JSONDecodeError">>
    /\ ex_insights = Insights(<<"- a", "- b">>, <<>>)
    /\ ex_page_items = DefaultPages

\* Both answers were no JSON and the run reached the UI design with empty
\* texts and the default pages.
BothAnswersNoJson ==
    /\ ex_pc = "ui"
    /\ ex_framework.k = "not_json"
    /\ ex_pages.k = "not_json"
    /\ ex_caught = <<"JSONDecodeError", "JSONDecodeError">>
    /\ ex_insights = NoInsights
    /\ ex_page_items = DefaultPages

\* An array of a string and an object without fields gave one page.
PageArrayWithForeignElement ==
    /\ ex_pc = "ui"
    /\ ex_pages = PageAnswer("array", <<PageElement("other", Missing, Missing),
                                        PageElement("object", Missing, Missing)>>)
    /\ ex_page_items = <<PageItem("page", "index.html")>>

\* A number in a field of the framework answer emptied both texts.
FrameworkFieldNotIterable ==
    /\ ex_pc = "pages"
    /\ ex_framework = FrameworkAnswer("object", Field("list", <<"a">>, 0), Field("num", <<>>, 5))
    /\ ex_caught = <<"TypeError">>
    /\ ex_insights = NoInsights

\* ---- C38 ----

\* The source stages the run has been through.
FrontendStageDone == cr_pc \in { "await_database", "await_backend", "await_manual" }
DatabaseStageDone == cr_pc \in { "await_backend", "await_manual" }
BackendStageDone == cr_pc = "await_manual"

\* A file written by this run lies in the directory.
HoldsFileOfRun(dir) == \E p \in cr_files : IsUnder(p, dir)

\* C38: after the frontend, the database or the backend stage of a run,
\* the stage's directory below output_sourcecode holds at least one file
\* written by this run, whatever paths the answer declared and whatever
\* the page list holds.
C38_SourceDirectoriesAreNeverEmpty ==
    /\ FrontendStageDone => HoldsFileOfRun(FrontDir)
    /\ DatabaseStageDone => HoldsFileOfRun(DbDir)
    /\ BackendStageDone => HoldsFileOfRun(BackendDir)

\* The database answer declared one file, with a rejected path: the stage
\* is over and output_sourcecode/db is empty.
C38_Witness ==
    /\ cr_pc = "await_manual"
    /\ cr_answers.database = { <<"..", "schema.sql">> }
    /\ ~HoldsFileOfRun(DbDir)
    /\ HoldsFileOfRun(BackendDir)

\* The page list was empty and the frontend answer had no file block: the
\* fallback wrote nothing.
FrontendEmptyForEmptyPageList ==
    /\ FrontendStageDone
    /\ cr_pages = <<>>
    /\ cr_answers.frontend = {}
    /\ ~HoldsFileOfRun(FrontDir)

\* An html file declared outside output_sourcecode/front kept the fallback
\* pages from being written.
FrontendEmptyForStrayPage ==
    /\ FrontendStageDone
    /\ cr_pages = IndexPageOnly
    /\ cr_answers.frontend = { StrayPagePath }
    /\ StrayPagePath \in cr_files
    /\ ~HoldsFileOfRun(FrontDir)

\* What holds: an answer without file blocks gets the fallback schema or
\* application, and the fallback pages of a list of plain file names; an
\* answer that declares a file in the stage's own directory gets it written.
FallbackForAnswerWithoutBlocks ==
    /\ (DatabaseStageDone /\ cr_answers.database \in { {}, { SchemaPath } }) => SchemaPath \in cr_files
    /\ (BackendStageDone /\ cr_answers.backend \in { {}, { BackendAppPath } }) =>
          BackendAppPath \in cr_files
    /\ (FrontendStageDone /\ cr_pages = IndexPageOnly
          /\ \A p \in cr_answers.frontend : ~IsHtml(p) \/ p # resolve(p)) =>
          FrontPagePath \in cr_files
    /\ (FrontendStageDone /\ cr_pages = DefaultPagesByFile
          /\ \A p \in cr_answers.frontend : ~IsHtml(p) \/ p # resolve(p)) =>
          fallback_frontend_paths(DefaultPagesByFile) \subseteq cr_files

\* ---- C39 ----

\* The file text a prompt of the run may hold when it depends on the
\* project's fields and the vendor directory only.
ExpectedFileTexts(call) ==
    IF call = "framework"
    THEN { IF cr_project.include_tech_desc THEN "own"
           ELSE IF "tech" \in cr_vendor THEN "vendor" ELSE NoText }
    ELSE IF call = "ui"
    THEN { IF cr_project.include_ui_desc THEN "own" ELSE NoText }
    ELSE IF call = "backend" THEN { NoText, "run" }
    ELSE { NoText }

\* C39: the prompts of a run depend on the project's fields and the vendor
\* templates only, whatever an earlier run left in the project directory;
\* a run with include_tech_desc = false never sends the text of a
\* technology document an earlier run wrote in requires_docs.
C39_PromptsHoldNoTextOfEarlierRuns ==
    \A i \in 1..Len(cr_prompts) :
        /\ cr_prompts[i].file_text # "earlier"
        /\ cr_prompts[i].file_text \in ExpectedFileTexts(cr_prompts[i].call)

\* A run without the flag found the technology document of an earlier run
\* and sent its text in the framework prompt.
C39_Witness ==
    /\ cr_pc = "await_framework"
    /\ ~cr_project.include_tech_desc
    /\ "tech" \notin cr_vendor
    /\ cr_docs["tech"] = "earlier"
    /\ cr_prompts = <<Prompt("framework", "earlier")>>

\* What holds of a run whose project is not edited while it runs: the UI
\* document of an earlier run is never sent, and a run with the flag set
\* sends its own technology text.
UiTextIsNeverOfEarlierRun ==
    ~cr_edited => \A i \in 1..Len(cr_prompts) :
        /\ cr_prompts[i].call # "framework" =>
              cr_prompts[i].file_text \in ExpectedFileTexts(cr_prompts[i].call)
        /\ (cr_prompts[i].call = "framework" /\ cr_project.include_tech_desc) =>
              cr_prompts[i].file_text = "own"

====
